---- MODULE Spec2Model ----
(***************************************************************************)
(* FinSight: the simulated brokerage ledger of app/services/               *)
(* trading_service.py (class TradingService) and its callers.              *)
(*                                                                         *)
(* The persisted ledger record is the file simulated_portfolio.json.  It   *)
(* is modelled as a byte container of abstract length holding a JSON       *)
(* document: json.dump writes the new document from offset 0 and           *)
(* f.truncate() cuts the file at the write position afterwards, so between *)
(* the two statements a shorter document is followed by the tail of the    *)
(* old one.  Prices, quantities and amounts are integers; average prices   *)
(* and profit figures are exact rationals (the code uses floats).          *)
(***************************************************************************)
EXTENDS Integers, Sequences, FiniteSets, TLC

\* ------------------------------------------------------------------ bounds
\* number of concurrent callers (API threads, engine, other processes)
NumCallers == 2
\* number of Ledger operations started in one behaviour
MaxOps == 3

\* ---------------------------------------------------------------- constants
\* trading_service.py:40  "cash": 100000.0
StartCash == 100000

\* line 14
PRICE_REFRESH_INTERVAL == 60

\* line 22: no refresh has been triggered
Never == -1

\* refreshes started before the last trigger is let in, and the last second
MaxStarts == 2
MaxClock == 120

\* seconds between two readings of the clock
Ticks == {30, 60}

\* ---------------------------------------------------------- input domains
Symbols == {"AAPL"}
\* a price of 0 stands for "no price" (data_fetcher returns {} -> get(...,0))
Prices == {150, 160}
Qtys == {10, 400}
Sides == {"buy", "sell"}
Sources == {"manual", "agent"}
Amounts == {0, 50000}
StopLosses == {0, 140}
RiskScores == {5}

Max(a, b) == IF a >= b THEN a ELSE b

\* ---------------------------------------------------------------- rationals
\* Python floats are modelled as exact fractions <<n, d>>, d > 0, reduced.
Abs(x) == IF x < 0 THEN -x ELSE x

RECURSIVE Gcd(_, _)
Gcd(a, b) == IF b = 0 THEN a ELSE Gcd(b, a % b)

Rat(n, d) ==
    LET g == Gcd(Abs(n), Abs(d))
        s == IF d < 0 THEN -1 ELSE 1
    IN  IF n = 0 THEN <<0, 1>> ELSE <<(s * n) \div g, (s * d) \div g>>

RatInt(i) == <<i, 1>>

\* ------------------------------------------------------------ ledger record
NoPositions == [s \in {} |-> 0]

DefaultAgent ==
    [allocated |-> 0, cash |-> 0, equity |-> 0, positions |-> NoPositions]

\* _ensure_sim_portfolio, the record written when the file is absent
InitialState ==
    [full |-> TRUE, equity |-> StartCash, buying_power |-> StartCash,
     cash |-> StartCash, positions |-> NoPositions, agent |-> DefaultAgent]

\* _ensure_sim_portfolio, migration of an unreadable file: data = {} plus the
\* default agent_portfolio.  The record has no house fields (full = FALSE).
AgentOnlyState ==
    [full |-> FALSE, equity |-> 0, buying_power |-> 0, cash |-> 0,
     positions |-> NoPositions, agent |-> DefaultAgent]

\* sum(p["qty"] * p.get("current_price", 0) for p in positions.values())
RECURSIVE SumValue(_, _)
SumValue(positions, syms) ==
    IF syms = {} THEN 0
    ELSE LET s == CHOOSE x \in syms : TRUE
         IN  positions[s].qty * positions[s].current_price
               + SumValue(positions, syms \ {s})

PosValue(positions) == SumValue(positions, DOMAIN positions)

Put(positions, symbol, pos) ==
    [s \in (DOMAIN positions) \cup {symbol} |->
        IF s = symbol THEN pos ELSE positions[s]]

Del(positions, symbol) ==
    [s \in (DOMAIN positions) \ {symbol} |-> positions[s]]

\* an average that ignores the quantities: the mean of the old average and
\* the price paid
NewAvgUnweighted(old_qty, old_avg, cost, new_qty) ==
    IF old_qty = 0 THEN Rat(cost, new_qty)
    ELSE Rat(old_avg[1] * (new_qty - old_qty) + cost * old_avg[2],
             2 * old_avg[2] * (new_qty - old_qty))

\* (old_qty * old_avg + cost) / new_qty
NewAvg(old_qty, old_avg, cost, new_qty) ==
    Rat(old_qty * old_avg[1] + cost * old_avg[2], old_avg[2] * new_qty)

\* (price - avg) * qty
UnrealizedPl(price, avg, qty) ==
    Rat((price * avg[2] - avg[1]) * qty, avg[2])

\* (price / avg) - 1 if avg else 0
UnrealizedPlpc(price, avg) ==
    IF avg[1] = 0 THEN <<0, 1>> ELSE Rat(price * avg[2] - avg[1], avg[1])

\* pos.get("qty", 0) and the average entry price of a position, 0 when absent
HeldQty(positions, symbol) ==
    IF symbol \in DOMAIN positions THEN positions[symbol].qty ELSE 0

HeldAvg(positions, symbol) ==
    IF symbol \in DOMAIN positions
    THEN positions[symbol].avg_entry_price ELSE <<0, 1>>

\* ------------------------------------------------- _execute_sim_trade body
\* lines 270-284: the house book on an accepted buy
HouseBuy(state, symbol, qty, price) ==
    LET cost == price * qty
        pos == IF symbol \in DOMAIN state.positions
               THEN state.positions[symbol]
               ELSE [qty |-> 0, avg_entry_price |-> <<0, 1>>]
        new_qty == pos.qty + qty
        new_avg == NewAvg(pos.qty, pos.avg_entry_price, cost, new_qty)
    IN  [state EXCEPT
            !.cash = state.cash - cost,
            !.positions = Put(state.positions, symbol,
                [qty |-> new_qty,
                 avg_entry_price |-> new_avg,
                 current_price |-> price,
                 unrealized_pl |-> UnrealizedPl(price, new_avg, new_qty),
                 unrealized_plpc |-> UnrealizedPlpc(price, new_avg)])]

\* a sell that credits the entry value of the shares, not the proceeds
HouseSellAtEntry(state, symbol, qty, price) ==
    LET pos == state.positions[symbol]
        left == pos.qty - qty
        cost == (pos.avg_entry_price[1] * qty) \div pos.avg_entry_price[2]
    IN  [state EXCEPT
            !.cash = state.cash + cost,
            !.positions =
                IF left = 0 THEN Del(state.positions, symbol)
                ELSE Put(state.positions, symbol, [pos EXCEPT !.qty = left])]

\* lines 285-297: the house book on an accepted sell
HouseSell(state, symbol, qty, price) ==
    LET cost == price * qty
        pos == state.positions[symbol]
        left == pos.qty - qty
    IN  [state EXCEPT
            !.cash = state.cash + cost,
            !.positions =
                IF left = 0 THEN Del(state.positions, symbol)
                ELSE Put(state.positions, symbol,
                    [pos EXCEPT
                        !.qty = left,
                        !.current_price = price,
                        !.unrealized_pl =
                            UnrealizedPl(price, pos.avg_entry_price, left),
                        !.unrealized_plpc =
                            UnrealizedPlpc(price, pos.avg_entry_price)])]

\* lines 303-315: the agent book on an agent buy
AgentBuy(ag, symbol, qty, price, stop_loss, risk_score) ==
    LET cost == price * qty
        p == IF symbol \in DOMAIN ag.positions
             THEN ag.positions[symbol]
             ELSE [qty |-> 0, avg_entry_price |-> <<0, 1>>]
        n_q == p.qty + qty
        n_av == NewAvg(p.qty, p.avg_entry_price, cost, n_q)
    IN  [ag EXCEPT
            !.cash = ag.cash - cost,
            !.positions = Put(ag.positions, symbol,
                [qty |-> n_q,
                 avg_entry_price |-> n_av,
                 current_price |-> price,
                 unrealized_pl |-> UnrealizedPl(price, n_av, n_q),
                 stop_loss |-> stop_loss,
                 risk_score |-> risk_score])]

\* an agent sell without lines 324-325: a position sold out stays as a row
AgentSellKeepRow(ag, symbol, qty, price) ==
    LET cost == price * qty
    IN  IF symbol \in DOMAIN ag.positions /\ ag.positions[symbol].qty >= qty
        THEN LET p == ag.positions[symbol]
                 left == p.qty - qty
             IN  [ag EXCEPT
                    !.cash = ag.cash + cost,
                    !.positions = Put(ag.positions, symbol,
                        [p EXCEPT
                            !.qty = left,
                            !.current_price = price,
                            !.unrealized_pl =
                                UnrealizedPl(price, p.avg_entry_price, left)])]
        ELSE ag

\* an agent sell without the else branch of lines 329-333: the proceeds are
\* credited to the agent whether or not it held the position
AgentSellAlwaysCredited(ag, symbol, qty, price) ==
    LET cost == price * qty
    IN  IF symbol \in DOMAIN ag.positions /\ ag.positions[symbol].qty >= qty
        THEN LET p == ag.positions[symbol]
                 left == p.qty - qty
             IN  [ag EXCEPT
                    !.cash = ag.cash + cost,
                    !.positions =
                        IF left = 0 THEN Del(ag.positions, symbol)
                        ELSE Put(ag.positions, symbol,
                                 [p EXCEPT
                                     !.qty = left,
                                     !.current_price = price,
                                     !.unrealized_pl =
                                         UnrealizedPl(price, p.avg_entry_price,
                                                      left)])]
        ELSE [ag EXCEPT !.cash = ag.cash + cost]

\* lines 316-333: the agent book on an agent sell
AgentSell(ag, symbol, qty, price) ==
    LET cost == price * qty
    IN  IF symbol \in DOMAIN ag.positions /\ ag.positions[symbol].qty >= qty
        THEN LET p == ag.positions[symbol]
                 left == p.qty - qty
             IN  [ag EXCEPT
                    !.cash = ag.cash + cost,
                    !.positions =
                        IF left = 0 THEN Del(ag.positions, symbol)
                        ELSE Put(ag.positions, symbol,
                            [p EXCEPT
                                !.qty = left,
                                !.current_price = price,
                                !.unrealized_pl =
                                    UnrealizedPl(price, p.avg_entry_price, left)])]
        ELSE ag

\* the equity update without lines 340-344
UpdateEquityHouseOnly(state) ==
    [state EXCEPT
        !.equity = state.cash + PosValue(state.positions),
        !.buying_power = state.cash]

\* lines 335-344: equity and buying power of both books
UpdateEquity(state) ==
    [state EXCEPT
        !.equity = state.cash + PosValue(state.positions),
        !.buying_power = state.cash,
        !.agent = [state.agent EXCEPT
                      !.equity = state.agent.cash + PosValue(state.agent.positions)]]

\* a rejection that is raised, not returned
RejectedRaised(state, why) ==
    [kind |-> "exception", error |-> why, state |-> state]

Rejected(state, why) == [kind |-> "rejected", error |-> why, state |-> state]
Raised(state, why) == [kind |-> "exception", error |-> why, state |-> state]
Success(state) == [kind |-> "success", error |-> "", state |-> state]

\* line 266: if side.lower() == "buy" and agent_cash < cost
AgentFundsShort(state, source, side, cost) ==
    source = "agent" /\ side = "buy" /\ state.agent.cash < cost

\* a house book that accepts every buy
HouseFundsUnchecked(state, side, cost) == FALSE

\* line 271: if state["cash"] < cost
HouseFundsShort(state, side, cost) ==
    side = "buy" /\ state.cash < cost

\* line 287: if not pos or pos["qty"] < qty
SharesShort(state, symbol, side, qty) ==
    /\ side # "buy"
    /\ \/ symbol \notin DOMAIN state.positions
       \/ state.positions[symbol].qty < qty

\* lines 260-347: what the body of the with-block does to the loaded state.
\* "rejected": a return {"error": ...} from inside the block; "exception": a
\* KeyError on a record without house fields.
SimTradeBody(state, symbol, qty, side, source, stop_loss, risk_score, price) ==
    LET cost == price * qty
    IN  IF AgentFundsShort(state, source, side, cost)
        THEN Rejected(state, "agent_funds")
        ELSE IF ~state.full
        THEN Raised(state, "KeyError")
        ELSE IF HouseFundsShort(state, side, cost)
        THEN Rejected(state, "funds")
        ELSE IF SharesShort(state, symbol, side, qty)
        THEN Rejected(state, "shares")
        ELSE LET house == IF side = "buy"
                          THEN HouseBuy(state, symbol, qty, price)
                          ELSE HouseSell(state, symbol, qty, price)
                 both == IF source = "agent"
                         THEN [house EXCEPT !.agent =
                                 IF side = "buy"
                                 THEN AgentBuy(house.agent, symbol, qty, price,
                                               stop_loss, risk_score)
                                 ELSE AgentSell(house.agent, symbol, qty, price)]
                         ELSE house
             IN  Success(UpdateEquity(both))

\* ------------------------------------------------- IEEE double arithmetic
\* The sizing of agent_brain.py lines 109-113 is done in Python floats.  A
\* natural number is a sequence of limbs below Limb, least significant first,
\* without leading zero limbs; a float is <<m, e>>, the value m * 2^e with m
\* a natural number of at most 53 bits (2^53 itself included).
Limb == 16384

RECURSIVE Pow2(_)
Pow2(n) == IF n = 0 THEN 1 ELSE 2 * Pow2(n - 1)

RECURSIVE Trim(_)
Trim(a) ==
    IF a # <<>> /\ a[Len(a)] = 0 THEN Trim(SubSeq(a, 1, Len(a) - 1)) ELSE a

RECURSIVE FromInt(_)
FromInt(n) == IF n = 0 THEN <<>> ELSE <<n % Limb>> \o FromInt(n \div Limb)

RECURSIVE ToInt(_)
ToInt(a) == IF a = <<>> THEN 0 ELSE a[1] + Limb * ToInt(Tail(a))

\* a + c, c a small number
RECURSIVE AddSmall(_, _)
AddSmall(a, c) ==
    IF c = 0 THEN a
    ELSE IF a = <<>> THEN FromInt(c)
    ELSE <<(a[1] + c) % Limb>> \o AddSmall(Tail(a), (a[1] + c) \div Limb)

RECURSIVE AddBig(_, _, _)
AddBig(a, b, c) ==
    IF a = <<>> THEN AddSmall(b, c)
    ELSE IF b = <<>> THEN AddSmall(a, c)
    ELSE LET t == a[1] + b[1] + c
         IN  <<t % Limb>> \o AddBig(Tail(a), Tail(b), t \div Limb)

\* a * d + c, d and c below Limb
RECURSIVE MulSmall(_, _, _)
MulSmall(a, d, c) ==
    IF a = <<>> THEN FromInt(c)
    ELSE LET t == a[1] * d + c
         IN  <<t % Limb>> \o MulSmall(Tail(a), d, t \div Limb)

RECURSIVE MulLimbs(_, _)
MulLimbs(a, b) ==
    IF a = <<>> \/ b = <<>> THEN <<>>
    ELSE AddBig(MulSmall(a, b[1], 0), <<0>> \o MulLimbs(a, Tail(b)), 0)

MulBig(a, b) == Trim(MulLimbs(a, b))

\* <<a div d, a mod d>> for 0 < d < 4 * Limb; the quotient may carry leading
\* zero limbs
RECURSIVE DivLimbs(_, _)
DivLimbs(a, d) ==
    IF a = <<>> THEN <<<<>>, 0>>
    ELSE LET hi == DivLimbs(Tail(a), d)
             t == hi[2] * Limb + a[1]
         IN  <<(<<t \div d>> \o hi[1]), t % d>>

DivSmall(a, d) == LET r == DivLimbs(a, d) IN <<Trim(r[1]), r[2]>>

RECURSIVE BitsOf(_)
BitsOf(n) == IF n = 0 THEN 0 ELSE 1 + BitsOf(n \div 2)

BitLen(a) == IF a = <<>> THEN 0 ELSE 14 * (Len(a) - 1) + BitsOf(a[Len(a)])

\* <<a div 2^k, a mod 2^k # 0>>
ShiftRightSticky(a, k) ==
    LET limbs == IF k \div 14 < Len(a) THEN k \div 14 ELSE Len(a)
        low == SubSeq(a, 1, limbs)
        rest == SubSeq(a, limbs + 1, Len(a))
        r == IF limbs = k \div 14 THEN DivSmall(rest, Pow2(k % 14))
             ELSE <<<<>>, 0>>
    IN  <<r[1], r[2] # 0 \/ \E i \in DOMAIN low : low[i] # 0>>

\* the float nearest to a * 2^e (+ a fraction of 2^e when sticky), ties to even
RoundNearest(a, e, sticky) ==
    IF BitLen(a) <= 53 THEN <<a, e>>
    ELSE LET s == BitLen(a) - 53
             sh == ShiftRightSticky(a, s - 1)
             half == sh[1][1] % 2 = 1
             q == DivSmall(sh[1], 2)[1]
             up == half /\ (sh[2] \/ sticky \/ q[1] % 2 = 1)
         IN  <<(IF up THEN AddSmall(q, 1) ELSE q), e + s>>

\* float(n) of an int n >= 0 below 2^31
FloatOf(n) == <<FromInt(n), 0>>

\* x * y
FloatMul(x, y) == RoundNearest(MulBig(x[1], y[1]), x[2] + y[2], FALSE)

\* x / d for an integral divisor 0 < d < 4 * Limb
FloatDivInt(x, d) ==
    LET r == DivSmall(<<0, 0, 0, 0, 0>> \o x[1], d)
    IN  IF x[1] = <<>> THEN x ELSE RoundNearest(r[1], x[2] - 70, r[2] # 0)

\* int(x)
FloatTrunc(x) ==
    IF x[2] >= 0 THEN ToInt(x[1]) * Pow2(x[2])
    ELSE ToInt(ShiftRightSticky(x[1], 0 - x[2])[1])

\* line 109: max(0.1, (11 - risk_score) / 10); for an integer score the quotient
\* is at least the literal 0.1 exactly when 11 - risk_score >= 1
RiskMultiplier(risk_score) ==
    IF 11 - risk_score < 1 THEN FloatDivInt(FloatOf(1), 10)
    ELSE FloatDivInt(FloatOf(11 - risk_score), 10)

\* lines 109-116: the quantity of a BUY; below 1 there is no trade (line 118)
BuyQty(agent_cash, risk_score, current_price) ==
    LET risk_multiplier == RiskMultiplier(risk_score)
        base_allocation == FloatMul(FloatOf(agent_cash),
                                    FloatDivInt(FloatOf(1), 5))
        allocation_per_trade == FloatMul(base_allocation, risk_multiplier)
        qty == FloatTrunc(FloatDivInt(allocation_per_trade, current_price))
    IN  IF qty < 1 /\ agent_cash >= current_price THEN 1 ELSE qty

\* ------------------------------------------------ set_agent_allocation body
\* an allocation that tops the agent book up by amount instead of lines 78-79
SetAllocationAdded(state, amount) ==
    Success([state EXCEPT !.agent =
        [state.agent EXCEPT
            !.allocated = @ + amount,
            !.cash = @ + amount,
            !.equity = state.agent.cash + amount
                       + PosValue(state.agent.positions)]])

\* lines 78-83
SetAllocationBody(state, amount) ==
    Success([state EXCEPT !.agent =
        [state.agent EXCEPT
            !.allocated = amount,
            !.cash = amount,
            !.equity = amount + PosValue(state.agent.positions)]])

\* --------------------------------------------------- _refresh_sim_prices body
\* a walk of the house book that a failed lookup ends: no position is
\* refreshed when one lookup fails
RefreshHouseAborted(positions, quote) ==
    IF \E s \in DOMAIN positions : quote[s] = 0 THEN positions
    ELSE [s \in DOMAIN positions |->
            [positions[s] EXCEPT
                !.current_price = quote[s],
                !.unrealized_pl =
                    UnrealizedPl(quote[s], positions[s].avg_entry_price,
                                 positions[s].qty),
                !.unrealized_plpc =
                    UnrealizedPlpc(quote[s], positions[s].avg_entry_price)]]

\* lines 373-383 / 388-398: one book's positions, each symbol with the price the
\* oracle returned for it (0: the lookup failed or gave no price, the position
\* is skipped)
RefreshHouse(positions, quote) ==
    [s \in DOMAIN positions |->
        IF quote[s] = 0 THEN positions[s]
        ELSE [positions[s] EXCEPT
                !.current_price = quote[s],
                !.unrealized_pl =
                    UnrealizedPl(quote[s], positions[s].avg_entry_price,
                                 positions[s].qty),
                !.unrealized_plpc =
                    UnrealizedPlpc(quote[s], positions[s].avg_entry_price)]]

RefreshAgent(positions, quote) ==
    [s \in DOMAIN positions |->
        IF quote[s] = 0 THEN positions[s]
        ELSE [positions[s] EXCEPT
                !.current_price = quote[s],
                !.unrealized_pl =
                    UnrealizedPl(quote[s], positions[s].avg_entry_price,
                                 positions[s].qty)]]

\* lines 368-412.  hq, aq: the quotes returned while walking the house book and
\* the agent book (two separate lookups per symbol).
RefreshBody(state, hq, aq) ==
    LET updated == (\E s \in DOMAIN state.positions : hq[s] # 0)
                   \/ (\E s \in DOMAIN state.agent.positions : aq[s] # 0)
        house == RefreshHouse(state.positions, hq)
        agent == RefreshAgent(state.agent.positions, aq)
    IN  IF ~updated THEN Success(state)
        ELSE IF ~state.full THEN Raised(state, "KeyError")
        ELSE Success([state EXCEPT
                !.positions = house,
                !.equity = state.cash + PosValue(house),
                !.agent = [state.agent EXCEPT
                              !.positions = agent,
                              !.equity = state.agent.cash + PosValue(agent)]])

\* ------------------------------------------------------- the persisted file
\* Abstract length of json.dump(state): one unit for the agent sub-record, one
\* for the house fields, one per position entry of either book (an entry is
\* over a hundred characters, the digits of the numbers a few).
DocLen(state) ==
    (IF state.full THEN 2 ELSE 1)
      + Cardinality(DOMAIN state.positions)
      + Cardinality(DOMAIN state.agent.positions)

\* The file: len units of bytes, the first plen of them the document st
\* (plen = 0: no document starts the file).  json.load succeeds exactly when
\* the document is all there is.
NoDocument == AgentOnlyState

Readable(f) == f.plen > 0 /\ f.plen = f.len

\* open(SIMULATED_PORTFOLIO, "w"): the file is cut to nothing
OpenW(f) == [st |-> NoDocument, plen |-> 0, len |-> 0]

\* f.seek(0); json.dump(state, f): the document overwrites the file from
\* offset 0; what lay beyond its end stays
WriteDoc(f, state) ==
    [st |-> state, plen |-> DocLen(state), len |-> Max(f.len, DocLen(state))]

\* f.truncate() at write position pos: cut, or pad with zero bytes
TruncateAt(f, pos) ==
    IF f.plen > pos
    THEN [st |-> NoDocument, plen |-> 0, len |-> pos]
    ELSE [f EXCEPT !.len = pos]

\* ------------------------------------------------------------------- state
VARIABLES
    file,       \* simulated_portfolio.json
    lock,       \* holder of the flock on it, 0 when free
    pc,         \* per caller: where it is in its operation
    op,         \* per caller: the operation and its arguments
    phase,      \* per caller: which _locked_portfolio block of the operation
    outcome,    \* per caller: what the with-block body computed
    loaded,     \* per caller: the state json.load returned
    snapAgent,  \* per caller: agent_portfolio kept by get_account_info
    result,     \* per caller: what the last operation returned
    started,    \* operations started so far
    serial,     \* history: the operations applied one at a time, in lock order
    tradesOnly, \* history: every operation started so far is an executeTrade
    snapHist,   \* history: per snapshot, documents persisted since its first load
    changed,    \* history: per caller, its current operation has altered the file
    clock,      \* datetime.now(), in seconds
    last_price_refresh, \* self._last_price_refresh of the one TradingService
    tpc,        \* per caller: where it is in _maybe_refresh_prices
    tnow,       \* per caller: the local `now` of _maybe_refresh_prices
    starts,     \* history: the time of every start of _refresh_sim_prices
    epc,        \* where run_once is in the cycle of the ticker
    cyc,        \* the cycle's market data, analysis and configuration
    seen,       \* what the cycle's get_account_info calls returned
    order,      \* side and qty computed for the signal trade
    submitted,  \* history: the place_order calls of the cycle, in order
    cycles,     \* cycles started so far
    called,     \* history: the collaborators the cycle has called
    mpc,        \* where start_monitoring is
    midx,       \* index in self.watchlist of the ticker of the for loop
    mtried,     \* history: indices whose loop body was entered this cycle
    mfailed,    \* history: indices whose loop body raised this cycle
    mconfig,    \* self.config as last reloaded
    mmodel,     \* self.analyst.model
    tfile,      \* trade_history.json
    pfile,      \* performance_history.json
    hpc,        \* per caller: where it is in _log_performance or _log_trade
    hop,        \* per caller: what it logs (equity, trade entry)
    history,    \* per caller: the local list `history`
    accepted,   \* history: the entries of the accepted trades, in order
    refreshes   \* history: how many refreshes have logged their equity

ledgerVars == <<file, lock, pc, op, phase, outcome, loaded, snapAgent, result,
                started, serial, tradesOnly, snapHist, changed>>

\* the callers' side of ledgerVars
callerVars == <<lock, pc, op, phase, outcome, loaded, snapAgent, result,
                started, serial, tradesOnly, snapHist, changed>>

throttleVars == <<clock, last_price_refresh, tpc, tnow, starts>>

engineVars == <<epc, cyc, seen, order, submitted, cycles, called>>

monitorVars == <<mpc, midx, mtried, mfailed, mconfig, mmodel>>

historyVars == <<tfile, pfile, hpc, hop, history, accepted, refreshes>>

\* the state outside the ledger, the throttle and run_once
restVars == <<monitorVars, historyVars>>

\* what the operations on the portfolio file leave alone
otherVars == <<throttleVars, engineVars, restVars>>

vars == <<ledgerVars, throttleVars, engineVars, restVars>>

Callers == 1..NumCallers

NoQuote == [s \in Symbols |-> 0]

NoOp ==
    [kind |-> "none", symbol |-> "", qty |-> 0, side |-> "", source |-> "",
     stop_loss |-> 0, risk_score |-> 0, price |-> 0, amount |-> 0,
     hq |-> NoQuote, aq |-> NoQuote]

NoOutcome == [kind |-> "none", error |-> "", state |-> NoDocument]

NoTrade ==
    [mode |-> "", symbol |-> "", side |-> "", qty |-> 0, price |-> 0,
     source |-> ""]

\* line 361: what the dictionary returned for an accepted trade names; a
\* rejection is returned as {"error": ...} alone
Named(o, out) ==
    IF o.kind = "trade" /\ out.kind = "success"
    THEN [mode |-> "simulation", symbol |-> o.symbol, side |-> o.side,
          qty |-> o.qty, price |-> o.price, source |-> o.source]
    ELSE NoTrade

NoResult == [status |-> "none", error |-> "", house |-> NoDocument,
             agent |-> DefaultAgent, trade |-> NoTrade]

\* what the body of the with-block makes of the loaded state
Body(o, state) ==
    CASE o.kind = "trade" ->
            SimTradeBody(state, o.symbol, o.qty, o.side, o.source,
                         o.stop_loss, o.risk_score, o.price)
      [] o.kind = "alloc" -> SetAllocationBody(state, o.amount)
      [] o.kind = "refresh" -> RefreshBody(state, o.hq, o.aq)
      [] OTHER -> Success(state)

\* the mode _locked_portfolio is entered with: "r" never writes back
WritesBack(o) == o.kind # "snapshot"

\* ------------------------------------------------------ the refresh throttle
\* line 22: self._last_price_refresh = None
ThrottleInit ==
    /\ clock = 0
    /\ last_price_refresh = Never
    /\ tpc = [c \in Callers |-> "idle"]
    /\ tnow = [c \in Callers |-> 0]
    /\ starts = <<>>

\* ------------------------------------------- AutonomousAgent.run_once, state
\* the one ticker of the watchlist
Ticker == "AAPL"

Signals == {"BUY", "SELL", "HOLD"}

\* data["price_data"] is missing
NoPriceData == -1

\* current_price of the cycle; 0 is a price the engine takes as invalid and
\* _execute_sim_trade as a failed lookup
EnginePrices == {0, 48, 63, 100}

\* the stop-loss and the risk score of an analysis
EngineStops == {0, 45, 50}
EngineRisks == {4, 5, 10}

\* amounts the agent was allocated before the engine runs
EngineCash == {0, 50, 900, 2500, 20000}

MaxCycles == 2

\* error: the analysis is the one analyze returns when the provider failed
NoCycle ==
    [price |-> 0, signal |-> "HOLD", risk_score |-> 5, stop_loss |-> 0,
     enabled |-> TRUE, error |-> FALSE]

\* stop, size: "none", "ok" or "raised", the outcome of get_account_info at
\* line 58 and at line 91; then what was read from the agent book
NoSeen ==
    [stop |-> "none", pos_qty |-> 0, stored_sl |-> 0,
     size |-> "none", agent_cash |-> 0, held |-> 0]

NoOrder == [side |-> "", qty |-> 0]

EngineIdle ==
    /\ epc = "idle"
    /\ cyc = NoCycle
    /\ seen = NoSeen
    /\ order = NoOrder
    /\ submitted = <<>>
    /\ cycles = 0
    /\ called = {}

\* ---------------------------------- AutonomousAgent.start_monitoring, state
\* line 20: the watchlist of a configuration that names none
Watchlist == <<"AAPL", "NVDA", "BTC-USD", "TSLA">>

\* line 12: self.model when neither the caller nor the configuration names one
DefaultModel == "llama3.1"

\* agent_config.json as _load_config finds it: an object naming a model, a
\* file it cannot read or parse (it returns {}), or a JSON document that is
\* not an object
ConfigModels == {"llama3.1", "mistral"}
NoConfig == "{}"
BadConfig == "[]"
Configs == ConfigModels \cup {NoConfig, BadConfig}

\* start_monitoring has not been called
MonitorIdle ==
    /\ mpc = "start"
    /\ midx = 1
    /\ mtried = {}
    /\ mfailed = {}
    /\ mconfig = NoConfig
    /\ mmodel = DefaultModel

\* ------------------------------------------------- the history files, state
\* lines 447 and 464: how many entries each history keeps
PERFORMANCE_KEEP == 1000
TRADE_KEEP == 500

\* equity values a caller logs
Equities == {StartCash, 98500}

MaxLogs == 2

\* a history file: its JSON list, or (cut) nothing at all, between
\* open(..., "w") and the end of json.dump
NoFile == [cut |-> TRUE, list |-> <<>>]
FileOf(list) == [cut |-> FALSE, list |-> list]

\* entries and samples written before the model starts: trades -n+1 .. 0, and
\* samples of the starting equity at time 0.  The id of a trade entry stands
\* for its timestamp, symbol, side, qty, price and source
OldTrades(n) == [i \in 1..n |-> [id |-> i - n]]
OldSamples(n) == [i \in 1..n |-> [timestamp |-> 0, equity |-> StartCash]]

NoLog == [kind |-> "none", equity |-> 0, entry |-> OldTrades(1)[1]]

\* the latest time a caller logs at
MaxLogClock == 90

\* no caller is logging
LoggersIdle ==
    /\ hpc = [c \in Callers |-> "idle"]
    /\ hop = [c \in Callers |-> NoLog]
    /\ history = [c \in Callers |-> <<>>]
    /\ accepted = <<>>
    /\ refreshes = 0

\* neither history file exists yet
HistoryIdle ==
    /\ tfile = NoFile
    /\ pfile = NoFile
    /\ LoggersIdle

\* no caller has started anything
CallersIdle ==
    /\ lock = 0
    /\ pc = [c \in Callers |-> "idle"]
    /\ op = [c \in Callers |-> NoOp]
    /\ phase = [c \in Callers |-> 0]
    /\ outcome = [c \in Callers |-> NoOutcome]
    /\ loaded = [c \in Callers |-> NoDocument]
    /\ snapAgent = [c \in Callers |-> DefaultAgent]
    /\ result = [c \in Callers |-> NoResult]
    /\ started = 0
    /\ serial = InitialState
    /\ tradesOnly = TRUE
    /\ snapHist = [c \in Callers |-> {}]
    /\ changed = [c \in Callers |-> FALSE]

Init ==
    /\ file = [st |-> InitialState, plen |-> DocLen(InitialState),
               len |-> DocLen(InitialState)]
    /\ CallersIdle
    /\ ThrottleInit
    /\ EngineIdle
    /\ MonitorIdle
    /\ HistoryIdle

\* a persisted document is recorded for every snapshot that is between its two
\* reads (the history is empty before the first, and the caller is idle after
\* the second)
Record(hist, f) ==
    [c \in Callers |->
        IF /\ op[c].kind = "snapshot" /\ hist[c] # {} /\ Readable(f)
           /\ pc[c] \in {"ensure", "ensure_open", "ensure_dump", "lock",
                         "load", "unlock"}
        THEN hist[c] \cup {f.st} ELSE hist[c]]

\* the step of self has left the file other than it found it
Touch(self) == changed' = [changed EXCEPT ![self] = @ \/ file' # file]

Begin(self, o, firstPhase) ==
    /\ op' = [op EXCEPT ![self] = o]
    /\ phase' = [phase EXCEPT ![self] = firstPhase]
    /\ outcome' = [outcome EXCEPT ![self] = NoOutcome]
    /\ loaded' = [loaded EXCEPT ![self] = NoDocument]
    /\ snapAgent' = [snapAgent EXCEPT ![self] = DefaultAgent]
    /\ snapHist' = [snapHist EXCEPT ![self] = {}]
    /\ changed' = [changed EXCEPT ![self] = FALSE]
    /\ started' = started + 1
    /\ tradesOnly' = (tradesOnly /\ o.kind = "trade")
    /\ UNCHANGED <<file, lock, serial>>
    /\ UNCHANGED otherVars

\* place_order -> _execute_sim_trade, lines 251-258: the price is fetched
\* before the lock; no price is a returned error
StartTrade(self) ==
    /\ pc[self] = "idle" /\ started < MaxOps
    /\ \E symbol \in Symbols, qty \in Qtys, side \in Sides, source \in Sources,
          stop_loss \in StopLosses, risk_score \in RiskScores,
          price \in Prices \cup {0} :
          LET o == [NoOp EXCEPT !.kind = "trade", !.symbol = symbol,
                       !.qty = qty, !.side = side, !.source = source,
                       !.stop_loss = IF source = "agent" /\ side = "buy"
                                     THEN stop_loss ELSE 0,
                       !.risk_score = IF source = "agent" /\ side = "buy"
                                      THEN risk_score ELSE 0,
                       !.price = price]
          IN  /\ Begin(self, o, 1)
              /\ IF price = 0
                 THEN /\ result' = [result EXCEPT ![self] =
                            [NoResult EXCEPT !.status = "rejected",
                                             !.error = "price"]]
                      /\ pc' = pc
                 ELSE /\ result' = [result EXCEPT ![self] = NoResult]
                      /\ pc' = [pc EXCEPT ![self] = "ensure"]

\* set_agent_allocation, line 72
StartAllocation(self) ==
    /\ pc[self] = "idle" /\ started < MaxOps
    /\ \E amount \in Amounts :
          Begin(self, [NoOp EXCEPT !.kind = "alloc", !.amount = amount], 1)
    /\ result' = [result EXCEPT ![self] = NoResult]
    /\ pc' = [pc EXCEPT ![self] = "ensure"]

\* _refresh_sim_prices, line 368; the quotes are what the oracle will answer
StartRefresh(self) ==
    /\ pc[self] = "idle" /\ started < MaxOps
    /\ \E hq \in [Symbols -> Prices \cup {0}], aq \in [Symbols -> Prices \cup {0}] :
          Begin(self, [NoOp EXCEPT !.kind = "refresh", !.hq = hq, !.aq = aq], 1)
    /\ result' = [result EXCEPT ![self] = NoResult]
    /\ pc' = [pc EXCEPT ![self] = "ensure"]

\* get_account_info, line 123: _ensure_sim_portfolio (phase 0), then the two
\* _locked_portfolio("r") blocks of lines 128 and 143 (phases 1 and 2)
StartSnapshot(self) ==
    /\ pc[self] = "idle" /\ started < MaxOps
    /\ Begin(self, [NoOp EXCEPT !.kind = "snapshot"], 0)
    /\ result' = [result EXCEPT ![self] = NoResult]
    /\ pc' = [pc EXCEPT ![self] = "ensure"]

AfterEnsure(self) ==
    IF op[self].kind = "snapshot" /\ phase[self] = 0
    THEN /\ phase' = [phase EXCEPT ![self] = 1]
         /\ pc' = [pc EXCEPT ![self] = "ensure"]
    ELSE /\ phase' = phase
         /\ pc' = [pc EXCEPT ![self] = "lock"]

\* _ensure_sim_portfolio, lines 52-60: the file is read with no lock held; an
\* unreadable file gives data = {}, which lacks "agent_portfolio"
EnsureRead(self) ==
    /\ pc[self] = "ensure"
    /\ IF Readable(file)
       THEN AfterEnsure(self)
       ELSE /\ pc' = [pc EXCEPT ![self] = "ensure_open"]
            /\ phase' = phase
    /\ UNCHANGED <<file, lock, op, outcome, loaded, snapAgent, result, started,
                   serial, tradesOnly, snapHist, changed>>
    /\ UNCHANGED otherVars

\* line 67: open(SIMULATED_PORTFOLIO, "w")
EnsureOpen(self) ==
    /\ pc[self] = "ensure_open"
    /\ file' = OpenW(file)
    /\ Touch(self)
    /\ pc' = [pc EXCEPT ![self] = "ensure_dump"]
    /\ UNCHANGED <<lock, op, phase, outcome, loaded, snapAgent, result, started,
                   serial, tradesOnly, snapHist>>
    /\ UNCHANGED otherVars

\* line 68: json.dump(data, f) and the close of the file
EnsureDump(self) ==
    /\ pc[self] = "ensure_dump"
    /\ file' = WriteDoc(file, AgentOnlyState)
    /\ Touch(self)
    /\ snapHist' = Record(snapHist, file')
    /\ AfterEnsure(self)
    /\ UNCHANGED <<lock, op, outcome, loaded, snapAgent, result, started, serial,
                   tradesOnly>>
    /\ UNCHANGED otherVars

\* an flock that does not exclude: the lock is taken whoever holds it
AcquireShared(self) ==
    /\ pc[self] = "lock"
    /\ lock' = self
    /\ pc' = [pc EXCEPT ![self] = "load"]
    /\ UNCHANGED <<file, op, phase, outcome, loaded, snapAgent, result, started,
                   serial, tradesOnly, snapHist, changed>>
    /\ UNCHANGED otherVars

\* lines 89-92: open the file and flock(LOCK_EX); blocks while another holds it
Acquire(self) ==
    /\ pc[self] = "lock"
    /\ lock = 0
    /\ lock' = self
    /\ pc' = [pc EXCEPT ![self] = "load"]
    /\ UNCHANGED <<file, op, phase, outcome, loaded, snapAgent, result, started,
                   serial, tradesOnly, snapHist, changed>>
    /\ UNCHANGED otherVars

\* lines 93-98 and the body of the with-block: json.load, then the caller's
\* code on the loaded state.  An unreadable file raises out of json.load.
Load(self) ==
    /\ pc[self] = "load"
    /\ IF ~Readable(file)
       THEN /\ outcome' = [outcome EXCEPT ![self] =
                              Raised(NoDocument, "JSONDecodeError")]
            /\ loaded' = loaded
            /\ snapAgent' = snapAgent
            /\ snapHist' = snapHist
            /\ pc' = [pc EXCEPT ![self] = "unlock"]
       ELSE LET out == Body(op[self], file.st)
            IN  /\ outcome' = [outcome EXCEPT ![self] = out]
                /\ loaded' = [loaded EXCEPT ![self] = file.st]
                /\ snapAgent' = IF op[self].kind = "snapshot" /\ phase[self] = 1
                                THEN [snapAgent EXCEPT ![self] = file.st.agent]
                                ELSE snapAgent
                /\ snapHist' = IF op[self].kind = "snapshot" /\ phase[self] = 1
                               THEN [snapHist EXCEPT ![self] = {file.st}]
                               ELSE snapHist
                /\ pc' = [pc EXCEPT ![self] =
                            IF out.kind = "exception" \/ ~WritesBack(op[self])
                            THEN "unlock" ELSE "dump"]
    /\ serial' = IF op[self].kind \in {"trade", "alloc", "refresh"}
                 THEN Body(op[self], serial).state ELSE serial
    /\ UNCHANGED <<file, lock, op, phase, result, started, tradesOnly, changed>>
    /\ UNCHANGED otherVars

\* lines 100-103: f.seek(0); json.dump(state, f)
Dump(self) ==
    /\ pc[self] = "dump"
    /\ file' = WriteDoc(file, outcome[self].state)
    /\ Touch(self)
    /\ snapHist' = Record(snapHist, file')
    /\ pc' = [pc EXCEPT ![self] = "truncate"]
    /\ UNCHANGED <<lock, op, phase, outcome, loaded, snapAgent, result, started,
                   serial, tradesOnly>>
    /\ UNCHANGED otherVars

\* line 104: f.truncate()
Truncate(self) ==
    /\ pc[self] = "truncate"
    /\ file' = TruncateAt(file, DocLen(outcome[self].state))
    /\ Touch(self)
    /\ snapHist' = Record(snapHist, file')
    /\ pc' = [pc EXCEPT ![self] = "unlock"]
    /\ UNCHANGED <<lock, op, phase, outcome, loaded, snapAgent, result, started,
                   serial, tradesOnly>>
    /\ UNCHANGED otherVars

\* an unlock that is not in a finally clause: it is skipped when the block is
\* left by anything but the normal end of its body
ReleaseNoFinally(self) ==
    /\ pc[self] = "unlock"
    /\ lock' = IF outcome[self].kind = "success" THEN 0 ELSE lock
    /\ IF op[self].kind = "snapshot" /\ phase[self] = 1
          /\ outcome[self].kind # "exception"
       THEN /\ phase' = [phase EXCEPT ![self] = 2]
            /\ pc' = [pc EXCEPT ![self] = "ensure"]
            /\ result' = result
       ELSE /\ phase' = phase
            /\ pc' = [pc EXCEPT ![self] = "idle"]
            /\ result' = [result EXCEPT ![self] =
                  [status |-> outcome[self].kind,
                   error |-> outcome[self].error,
                   house |-> IF op[self].kind = "snapshot"
                                /\ outcome[self].kind # "exception"
                             THEN loaded[self] ELSE NoDocument,
                   agent |-> IF op[self].kind = "snapshot"
                                /\ outcome[self].kind # "exception"
                             THEN snapAgent[self] ELSE DefaultAgent,
                   trade |-> Named(op[self], outcome[self])]]
    /\ UNCHANGED <<file, op, outcome, loaded, snapAgent, started, serial,
                   tradesOnly, snapHist, changed>>
    /\ UNCHANGED otherVars

\* lines 105-107: finally: flock(LOCK_UN); then the operation returns, raises,
\* or (get_account_info) enters its second block
Release(self) ==
    /\ pc[self] = "unlock"
    /\ lock' = 0
    /\ IF op[self].kind = "snapshot" /\ phase[self] = 1
          /\ outcome[self].kind # "exception"
       THEN /\ phase' = [phase EXCEPT ![self] = 2]
            /\ pc' = [pc EXCEPT ![self] = "ensure"]
            /\ result' = result
       ELSE /\ phase' = phase
            /\ pc' = [pc EXCEPT ![self] = "idle"]
            /\ result' = [result EXCEPT ![self] =
                  [status |-> outcome[self].kind,
                   error |-> outcome[self].error,
                   house |-> IF op[self].kind = "snapshot"
                                /\ outcome[self].kind # "exception"
                             THEN loaded[self] ELSE NoDocument,
                   agent |-> IF op[self].kind = "snapshot"
                                /\ outcome[self].kind # "exception"
                             THEN snapAgent[self] ELSE DefaultAgent,
                   trade |-> Named(op[self], outcome[self])]]
    /\ UNCHANGED <<file, op, outcome, loaded, snapAgent, started, serial,
                   tradesOnly, snapHist, changed>>
    /\ UNCHANGED otherVars

\* ------------------------------------------------ _maybe_refresh_prices
\* time passes
Tick ==
    /\ \E d \in Ticks : clock + d <= MaxClock /\ clock' = clock + d
    /\ UNCHANGED <<last_price_refresh, tpc, tnow, starts>>
    /\ UNCHANGED <<ledgerVars, engineVars, restVars>>

\* get_account_info, line 126 -> line 112: now = datetime.now()
GateNow(self) ==
    /\ tpc[self] = "idle" /\ Len(starts) < MaxStarts
    /\ tnow' = [tnow EXCEPT ![self] = clock]
    /\ tpc' = [tpc EXCEPT ![self] = "check"]
    /\ UNCHANGED <<clock, last_price_refresh, starts>>
    /\ UNCHANGED <<ledgerVars, engineVars, restVars>>

\* lines 113-116: the gate is read; the trigger is a no-op inside the window
GateCheck(self) ==
    /\ tpc[self] = "check"
    /\ tpc' = [tpc EXCEPT ![self] =
                 IF \/ last_price_refresh = Never
                    \/ tnow[self] - last_price_refresh >= PRICE_REFRESH_INTERVAL
                 THEN "set" ELSE "idle"]
    /\ UNCHANGED <<clock, last_price_refresh, tnow, starts>>
    /\ UNCHANGED <<ledgerVars, engineVars, restVars>>

\* line 118: self._last_price_refresh = now
GateSet(self) ==
    /\ tpc[self] = "set"
    /\ last_price_refresh' = tnow[self]
    /\ tpc' = [tpc EXCEPT ![self] = "spawn"]
    /\ UNCHANGED <<clock, tnow, starts>>
    /\ UNCHANGED <<ledgerVars, engineVars, restVars>>

\* lines 119-120: the thread running _refresh_sim_prices is started; the start
\* is stamped with the time the gate recorded for it
SpawnRefresh(self) ==
    /\ tpc[self] = "spawn"
    /\ starts' = Append(starts, tnow[self])
    /\ tpc' = [tpc EXCEPT ![self] = "idle"]
    /\ UNCHANGED <<clock, last_price_refresh, tnow>>
    /\ UNCHANGED <<ledgerVars, engineVars, restVars>>

\* get_positions in simulation mode, line 173: self._refresh_sim_prices()
GetPositions(self) ==
    /\ tpc[self] = "idle" /\ Len(starts) < MaxStarts
    /\ starts' = Append(starts, clock)
    /\ UNCHANGED <<clock, last_price_refresh, tpc, tnow>>
    /\ UNCHANGED <<ledgerVars, engineVars, restVars>>

ThrottleNext ==
    \/ Tick
    \/ \E self \in Callers :
          \/ GateNow(self)
          \/ GateCheck(self)
          \/ GateSet(self)
          \/ SpawnRefresh(self)
          \/ GetPositions(self)

ThrottleSpec == Init /\ [][ThrottleNext]_vars

Next ==
    \E self \in Callers :
        \/ StartTrade(self)
        \/ StartAllocation(self)
        \/ StartRefresh(self)
        \/ StartSnapshot(self)
        \/ EnsureRead(self)
        \/ EnsureOpen(self)
        \/ EnsureDump(self)
        \/ Acquire(self)
        \/ Load(self)
        \/ Dump(self)
        \/ Truncate(self)
        \/ Release(self)

Spec == Init /\ [][Next]_vars

\* every thread keeps running: a caller blocked in flock takes the lock once
\* it stays free, and a caller inside the critical section goes on to its end.
\* Load(c) is enabled exactly when pc[c] = "load", so the third conjunct is
\* WF_vars(Load(c)) written out.
FairSpec ==
    /\ Spec
    /\ \A c \in Callers :
          /\ WF_vars(Acquire(c))
          /\ WF_vars(Dump(c) \/ Truncate(c) \/ Release(c))
          /\ []<>(pc[c] # "load") \/ []<><<Load(c)>>_vars

\* the ledger after set_agent_allocation(50000) has returned: the state the
\* callers start from once the agent has been funded
FundedState == SetAllocationBody(InitialState, 50000).state

FundedInit ==
    /\ file = [st |-> FundedState, plen |-> DocLen(FundedState),
               len |-> DocLen(FundedState)]
    /\ lock = 0
    /\ pc = [c \in Callers |-> "idle"]
    /\ op = [c \in Callers |-> NoOp]
    /\ phase = [c \in Callers |-> 0]
    /\ outcome = [c \in Callers |-> NoOutcome]
    /\ loaded = [c \in Callers |-> NoDocument]
    /\ snapAgent = [c \in Callers |-> DefaultAgent]
    /\ result = [c \in Callers |-> NoResult]
    /\ started = 0
    /\ serial = FundedState
    /\ tradesOnly = TRUE
    /\ snapHist = [c \in Callers |-> {}]
    /\ changed = [c \in Callers |-> FALSE]
    /\ ThrottleInit
    /\ EngineIdle
    /\ MonitorIdle
    /\ HistoryIdle

FundedSpec == FundedInit /\ [][Next]_vars

\* ----------------------------------------------- AutonomousAgent.run_once
\* the looser of two positive floors instead of the tighter
ActiveSlLower(stop_loss, stored_sl) ==
    IF stop_loss > 0 /\ stored_sl > 0
    THEN (IF stop_loss < stored_sl THEN stop_loss ELSE stored_sl)
    ELSE IF stop_loss # 0 THEN stop_loss ELSE stored_sl

\* line 71: max(stop_loss, stored_sl) if stop_loss > 0 and stored_sl > 0
\*          else (stop_loss or stored_sl)
ActiveSl(stop_loss, stored_sl) ==
    IF stop_loss > 0 /\ stored_sl > 0 THEN Max(stop_loss, stored_sl)
    ELSE IF stop_loss # 0 THEN stop_loss ELSE stored_sl

\* the file holding the document state and nothing else
Stored(state) == [st |-> state, plen |-> DocLen(state), len |-> DocLen(state)]

\* place_order(ticker, qty, side, source="agent", ...) that returns: the file
\* after it.  price is what _execute_sim_trade gets from its own lookup: the
\* price of the cycle, or 0 when the lookup fails.
Placed(f, qty, side, stop_loss, risk_score, price) ==
    IF price = 0 THEN f
    ELSE Stored(SimTradeBody(f.st, Ticker, qty, side, "agent", stop_loss,
                             risk_score, price).state)

\* a SELL of one share whatever is held
SellQtyOne(ag_port) == 1

\* lines 121-122: ag_port.get("positions", {}).get(ticker, {}).get("qty", 0)
SellQty(ag_port) == HeldQty(ag_port.positions, Ticker)

\* run_once going on to the analysis without price data
FetchDataNoReturn(price, enabled) ==
    /\ epc = "idle" /\ cycles < MaxCycles
    /\ cycles' = cycles + 1
    /\ submitted' = <<>>
    /\ seen' = NoSeen
    /\ order' = NoOrder
    /\ called' = {}
    /\ cyc' = [NoCycle EXCEPT !.price = price, !.enabled = enabled]
    /\ epc' = "analyze"
    /\ UNCHANGED <<ledgerVars, throttleVars, restVars>>

\* lines 36-39: market data; without price_data the cycle is over.  The
\* configuration the cycle runs under is the one loaded before it (line 153,
\* or line 12 for a direct call): enabled is its autonomous_enabled, which
\* line 83 reads
FetchData(price, enabled) ==
    /\ epc = "idle" /\ cycles < MaxCycles
    /\ cycles' = cycles + 1
    /\ submitted' = <<>>
    /\ seen' = NoSeen
    /\ order' = NoOrder
    /\ called' = {}
    /\ cyc' = [NoCycle EXCEPT !.price = price, !.enabled = enabled]
    /\ epc' = IF price = NoPriceData THEN "idle" ELSE "analyze"
    /\ UNCHANGED <<ledgerVars, throttleVars, restVars>>

\* the outer handler taking the keyword fallback of lines 124-127 on a
\* failure text that holds the word BUY
AnalysisFailedBuy == [signal |-> "BUY", risk_score |-> 5, stop_loss |-> 0]

\* llm_engine.py lines 130-136: what analyze returns when a call of the
\* provider, a tool or the reading of a tool call raised, as lines 49-52 of
\* run_once read it (risk_score and stop_loss are absent from it)
AnalysisFailed == [signal |-> "HOLD", risk_score |-> 5, stop_loss |-> 0]

\* lines 42-54: the news, the analysis, of a provider that answered or
\* failed, and its notification
Analyze ==
    /\ epc = "analyze"
    /\ called' = called \cup {"get_market_news", "analyze", "notify_analysis"}
    /\ \E failed \in BOOLEAN, signal \in Signals, risk_score \in EngineRisks,
          stop_loss \in EngineStops :
          cyc' = IF failed
                 THEN [cyc EXCEPT !.signal = AnalysisFailed.signal,
                                  !.risk_score = AnalysisFailed.risk_score,
                                  !.stop_loss = AnalysisFailed.stop_loss,
                                  !.error = TRUE]
                 ELSE [cyc EXCEPT !.signal = signal,
                                  !.risk_score = risk_score,
                                  !.stop_loss = stop_loss]
    /\ epc' = "stop_check"
    /\ UNCHANGED <<seen, order, submitted, cycles>>
    /\ UNCHANGED <<ledgerVars, throttleVars, restVars>>

\* lines 57-73: get_account_info and the stop-loss test; an exception of the
\* read is caught at line 78
StopLossRead(raised) ==
    /\ epc = "stop_check"
    /\ called' = called \cup {"get_account_info"}
    /\ IF raised
       THEN /\ seen' = [seen EXCEPT !.stop = "raised"]
            /\ epc' = "signal"
       ELSE LET positions == file.st.agent.positions
                pos_qty == HeldQty(positions, Ticker)
                stored_sl == IF Ticker \in DOMAIN positions
                             THEN positions[Ticker].stop_loss ELSE 0
                active_sl == ActiveSl(cyc.stop_loss, stored_sl)
            IN  /\ seen' = [seen EXCEPT !.stop = "ok",
                                        !.pos_qty = pos_qty,
                                        !.stored_sl = stored_sl]
                /\ epc' = IF /\ pos_qty > 0
                             /\ active_sl > 0 /\ cyc.price <= active_sl
                          THEN "panic" ELSE "signal"
    /\ UNCHANGED <<cyc, order, submitted, cycles>>
    /\ UNCHANGED <<ledgerVars, throttleVars, restVars>>

\* the read of lines 57-59 returns or raises
StopLossCheck == \E raised \in BOOLEAN : StopLossRead(raised)

\* lines 74-77: place_order(ticker, pos["qty"], "sell", source="agent") and
\* return; an exception of place_order is caught at line 78 and the cycle
\* goes on with step 3
PanicPlace(raised, price) ==
    /\ epc = "panic"
    /\ called' = called \cup {"notify", "place_order"}
    /\ submitted' = Append(submitted,
          [kind |-> "panic", side |-> "sell", qty |-> seen.pos_qty,
           source |-> "agent", stop_loss |-> 0, risk_score |-> 0])
    /\ IF raised
       THEN file' = file /\ epc' = "signal"
       ELSE /\ file' = Placed(file, seen.pos_qty, "sell", 0, 0, price)
            /\ epc' = "idle"
    /\ UNCHANGED <<cyc, seen, order, cycles>>
    /\ UNCHANGED <<callerVars, throttleVars, restVars>>

\* place_order returns or raises, and its own lookup of the price gives the
\* price of the cycle or fails
PanicSell ==
    \E raised \in BOOLEAN, price \in {0, cyc.price} : PanicPlace(raised, price)

\* the gate without the test of line 83
SignalGateUngated ==
    /\ epc = "signal"
    /\ called' = called
    /\ epc' = IF cyc.signal \in {"BUY", "SELL"} THEN "size" ELSE "idle"
    /\ UNCHANGED <<cyc, seen, order, submitted, cycles>>
    /\ UNCHANGED <<ledgerVars, throttleVars, restVars>>

\* lines 82-85: the signal and the configuration
SignalGate ==
    /\ epc = "signal"
    /\ called' = called
    /\ epc' = IF cyc.signal \in {"BUY", "SELL"} /\ cyc.enabled
              THEN "size" ELSE "idle"
    /\ UNCHANGED <<cyc, seen, order, submitted, cycles>>
    /\ UNCHANGED <<ledgerVars, throttleVars, restVars>>

\* lines 87-132: the quantity; an exception of the read sets it to 1
SizeOrder ==
    /\ epc = "size"
    /\ called' = called \cup {"get_account_info"}
    /\ LET side == IF cyc.signal = "BUY" THEN "buy" ELSE "sell"
       IN  \E raised \in BOOLEAN :
              IF raised
              THEN /\ seen' = [seen EXCEPT !.size = "raised"]
                   /\ order' = [side |-> side, qty |-> 1]
                   /\ epc' = "submit"
              ELSE LET agent_cash == file.st.agent.cash
                       held == SellQty(file.st.agent)
                       qty == IF cyc.price <= 0 THEN 0
                              ELSE IF side = "buy"
                              THEN BuyQty(agent_cash, cyc.risk_score, cyc.price)
                              ELSE held
                   IN  /\ seen' = [seen EXCEPT !.size = "ok",
                                               !.agent_cash = agent_cash,
                                               !.held = held]
                       /\ IF qty >= 1
                          THEN /\ order' = [side |-> side, qty |-> qty]
                               /\ epc' = "submit"
                          ELSE /\ order' = NoOrder
                               /\ epc' = "idle"
    /\ UNCHANGED <<cyc, submitted, cycles>>
    /\ UNCHANGED <<ledgerVars, throttleVars, restVars>>

\* line 136: place_order(ticker, qty, side, source="agent",
\* stop_loss=stop_loss, risk_score=risk_score); an exception ends run_once
SubmitOrder ==
    /\ epc = "submit"
    /\ called' = called \cup {"place_order"}
    /\ submitted' = Append(submitted,
          [kind |-> "signal", side |-> order.side, qty |-> order.qty,
           source |-> "agent", stop_loss |-> cyc.stop_loss,
           risk_score |-> cyc.risk_score])
    /\ \E raised \in BOOLEAN, price \in {0, cyc.price} :
          file' = IF raised THEN file
                  ELSE Placed(file, order.qty, order.side, cyc.stop_loss,
                              cyc.risk_score, price)
    /\ epc' = "idle"
    /\ UNCHANGED <<cyc, seen, order, cycles>>
    /\ UNCHANGED <<callerVars, throttleVars, restVars>>

EngineNext ==
    \/ \E price \in EnginePrices \cup {NoPriceData}, enabled \in BOOLEAN :
          FetchData(price, enabled)
    \/ Analyze
    \/ StopLossCheck
    \/ PanicSell
    \/ SignalGate
    \/ SizeOrder
    \/ SubmitOrder

\* the engine starts on a ledger whose agent book has been allocated
EngineInit ==
    /\ \E amount \in EngineCash :
          file = Stored(SetAllocationBody(InitialState, amount).state)
    /\ CallersIdle
    /\ ThrottleInit
    /\ EngineIdle
    /\ MonitorIdle
    /\ HistoryIdle

EngineSpec == EngineInit /\ [][EngineNext]_vars

\* ---------------------------------------- AutonomousAgent.start_monitoring
\* the for loop takes the next ticker, or is over and line 162 is next
NextTicker ==
    IF midx < Len(Watchlist)
    THEN midx' = midx + 1 /\ mpc' = "config"
    ELSE midx' = midx /\ mpc' = "sleep"

\* lines 148-150: the first cycle begins
StartMonitoring ==
    /\ mpc = "start"
    /\ mpc' = "config" /\ midx' = 1
    /\ UNCHANGED <<mtried, mfailed, mconfig, mmodel>>
    /\ UNCHANGED <<ledgerVars, throttleVars, engineVars, historyVars>>

\* lines 152-157: the configuration is reloaded and the analyst's model is
\* set from it; self.config.get raises on a document that is not an object
ReloadConfig(config) ==
    /\ mpc = "config"
    /\ mtried' = mtried \cup {midx}
    /\ mconfig' = config
    /\ IF config = BadConfig
       THEN mpc' = "except" /\ mmodel' = mmodel
       ELSE /\ mmodel' = IF config = NoConfig THEN DefaultModel ELSE config
            /\ mpc' = "run"
    /\ UNCHANGED <<midx, mfailed>>
    /\ UNCHANGED <<ledgerVars, throttleVars, engineVars, historyVars>>

\* line 158: await self.run_once(ticker) returns or raises an Exception
RunOnce(raised) ==
    /\ mpc = "run"
    /\ IF raised
       THEN mpc' = "except" /\ midx' = midx
       ELSE NextTicker
    /\ UNCHANGED <<mtried, mfailed, mconfig, mmodel>>
    /\ UNCHANGED <<ledgerVars, throttleVars, engineVars, historyVars>>

\* the exception leaves the for loop and start_monitoring
MonitorExceptPropagates ==
    /\ mpc = "except"
    /\ mfailed' = mfailed \cup {midx}
    /\ mpc' = "stopped"
    /\ UNCHANGED <<midx, mtried, mconfig, mmodel>>
    /\ UNCHANGED <<ledgerVars, throttleVars, engineVars, historyVars>>

\* lines 159-160: the exception is printed and the for loop goes on
MonitorExcept ==
    /\ mpc = "except"
    /\ mfailed' = mfailed \cup {midx}
    /\ NextTicker
    /\ UNCHANGED <<mtried, mconfig, mmodel>>
    /\ UNCHANGED <<ledgerVars, throttleVars, engineVars, historyVars>>

\* lines 162-163 and 150-151: the sleep is over, the next cycle begins
Sleep ==
    /\ mpc = "sleep"
    /\ mpc' = "config" /\ midx' = 1
    /\ mtried' = {} /\ mfailed' = {}
    /\ UNCHANGED <<mconfig, mmodel>>
    /\ UNCHANGED <<ledgerVars, throttleVars, engineVars, historyVars>>

MonitorNext ==
    \/ StartMonitoring
    \/ \E config \in Configs : ReloadConfig(config)
    \/ \E raised \in BOOLEAN : RunOnce(raised)
    \/ MonitorExcept
    \/ Sleep

\* the task of start_monitoring is scheduled again whenever what it awaits
\* (run_once, asyncio.sleep) is over
MonitorSpec == Init /\ [][MonitorNext]_vars /\ WF_vars(MonitorNext)

\* --------------------------------------- _log_performance and _log_trade
\* lines 420-426 and 455-460: the list in the file, [] when the file is not
\* there or json.load raises
ReadHistory(f) == IF f.cut THEN <<>> ELSE f.list

\* lines 447-448 and 464-465: history[-n:] when it is longer than n
KeepLast(list, n) ==
    IF Len(list) > n THEN SubSeq(list, Len(list) - n + 1, Len(list)) ELSE list

\* lines 432-441: should_log
ShouldLog(list, equity, now) ==
    \/ list = <<>>
    \/ list[Len(list)].equity # equity
    \/ now - list[Len(list)].timestamp >= 60

\* lines 346-349: an accepted trade has left the with-block with the equity
\* to log; lines 351-358: its trade entry
AcceptTrade(self) ==
    /\ hpc[self] = "idle" /\ Len(accepted) + refreshes < MaxLogs
    /\ \E equity \in Equities :
          LET entry == [id |-> Len(accepted) + 1]
          IN  /\ hop' = [hop EXCEPT ![self] =
                        [kind |-> "trade", equity |-> equity, entry |-> entry]]
              /\ accepted' = Append(accepted, entry)
    /\ hpc' = [hpc EXCEPT ![self] = "perf_read"]
    /\ UNCHANGED <<tfile, pfile, history, refreshes>>
    /\ UNCHANGED <<ledgerVars, throttleVars, engineVars, monitorVars>>

\* lines 413-415: _refresh_sim_prices logs the equity it computed
RefreshLogs(self) ==
    /\ hpc[self] = "idle" /\ Len(accepted) + refreshes < MaxLogs
    /\ \E equity \in Equities :
          hop' = [hop EXCEPT ![self] = [NoLog EXCEPT !.kind = "refresh",
                                                    !.equity = equity]]
    /\ refreshes' = refreshes + 1
    /\ hpc' = [hpc EXCEPT ![self] = "perf_read"]
    /\ UNCHANGED <<tfile, pfile, history, accepted>>
    /\ UNCHANGED <<ledgerVars, throttleVars, engineVars, monitorVars>>

\* the reasons of a rejection: lines 257-258, 264-267, 271-272, 287-288
Rejections == {"price", "agent_funds", "funds", "shares"}

\* a rejection that leaves the with-block without returning and goes on to
\* the logging of lines 349-359
RejectTradeLogged(self, why) ==
    /\ hpc[self] = "idle" /\ Len(accepted) + refreshes < MaxLogs
    /\ \E equity \in Equities :
          hop' = [hop EXCEPT ![self] =
                    [kind |-> "rejected", equity |-> equity,
                     entry |-> [id |-> Len(accepted) + 1]]]
    /\ hpc' = [hpc EXCEPT ![self] = "perf_read"]
    /\ UNCHANGED <<tfile, pfile, history, accepted, refreshes>>
    /\ UNCHANGED <<ledgerVars, throttleVars, engineVars, monitorVars>>

\* a rejected trade: the return of line 258 before the with-block, or of
\* line 267, 272 or 288 inside it, ends _execute_sim_trade: lines 349-359
\* are not reached
RejectTrade(self, why) ==
    /\ hpc[self] = "idle"
    /\ hop' = [hop EXCEPT ![self] = [NoLog EXCEPT !.kind = "rejected"]]
    /\ hpc' = hpc
    /\ UNCHANGED <<tfile, pfile, history, accepted, refreshes>>
    /\ UNCHANGED <<ledgerVars, throttleVars, engineVars, monitorVars>>

\* lines 419-426: history = json.load(f), or [] as it was
PerfRead(self) ==
    /\ hpc[self] = "perf_read"
    /\ history' = [history EXCEPT ![self] = ReadHistory(pfile)]
    /\ hpc' = [hpc EXCEPT ![self] = "perf_now"]
    /\ UNCHANGED <<tfile, pfile, hop, accepted, refreshes>>
    /\ UNCHANGED <<ledgerVars, throttleVars, engineVars, monitorVars>>

\* _log_performance is over: _log_trade follows it in a trade; the locals of
\* a caller that has returned are forgotten
AfterPerf(self, list) ==
    IF hop[self].kind = "trade"
    THEN /\ hpc' = [hpc EXCEPT ![self] = "trade_read"]
         /\ hop' = hop
         /\ history' = [history EXCEPT ![self] = list]
    ELSE /\ hpc' = [hpc EXCEPT ![self] = "idle"]
         /\ hop' = [hop EXCEPT ![self] = NoLog]
         /\ history' = [history EXCEPT ![self] = <<>>]

\* lines 429-448: the timestamp, should_log, the append and the cut to the
\* last PERFORMANCE_KEEP samples
PerfDecide(self) ==
    /\ hpc[self] = "perf_now"
    /\ IF ShouldLog(history[self], hop[self].equity, clock)
       THEN /\ history' = [history EXCEPT ![self] =
                  KeepLast(Append(@, [timestamp |-> clock,
                                      equity |-> hop[self].equity]),
                           PERFORMANCE_KEEP)]
            /\ hop' = hop
            /\ hpc' = [hpc EXCEPT ![self] = "perf_open"]
       ELSE AfterPerf(self, history[self])
    /\ UNCHANGED <<tfile, pfile, accepted, refreshes>>
    /\ UNCHANGED <<ledgerVars, throttleVars, engineVars, monitorVars>>

\* line 450: open(PERFORMANCE_HISTORY, "w")
PerfOpen(self) ==
    /\ hpc[self] = "perf_open"
    /\ pfile' = NoFile
    /\ hpc' = [hpc EXCEPT ![self] = "perf_dump"]
    /\ UNCHANGED <<tfile, hop, history, accepted, refreshes>>
    /\ UNCHANGED <<ledgerVars, throttleVars, engineVars, monitorVars>>

\* line 451: json.dump(history, f) and the close of the file
PerfDump(self) ==
    /\ hpc[self] = "perf_dump"
    /\ pfile' = FileOf(history[self])
    /\ AfterPerf(self, history[self])
    /\ UNCHANGED <<tfile, accepted, refreshes>>
    /\ UNCHANGED <<ledgerVars, throttleVars, engineVars, monitorVars>>

\* lines 454-465: the list read, the entry appended, the cut to the last
\* TRADE_KEEP entries
TradeRead(self) ==
    /\ hpc[self] = "trade_read"
    /\ history' = [history EXCEPT ![self] =
          KeepLast(Append(ReadHistory(tfile), hop[self].entry), TRADE_KEEP)]
    /\ hpc' = [hpc EXCEPT ![self] = "trade_open"]
    /\ UNCHANGED <<tfile, pfile, hop, accepted, refreshes>>
    /\ UNCHANGED <<ledgerVars, throttleVars, engineVars, monitorVars>>

\* line 467: open(TRADE_HISTORY, "w")
TradeOpen(self) ==
    /\ hpc[self] = "trade_open"
    /\ tfile' = NoFile
    /\ hpc' = [hpc EXCEPT ![self] = "trade_dump"]
    /\ UNCHANGED <<pfile, hop, history, accepted, refreshes>>
    /\ UNCHANGED <<ledgerVars, throttleVars, engineVars, monitorVars>>

\* line 468: json.dump(history, f) and the close of the file; line 361
TradeDump(self) ==
    /\ hpc[self] = "trade_dump"
    /\ tfile' = FileOf(history[self])
    /\ hpc' = [hpc EXCEPT ![self] = "idle"]
    /\ hop' = [hop EXCEPT ![self] = NoLog]
    /\ history' = [history EXCEPT ![self] = <<>>]
    /\ UNCHANGED <<pfile, accepted, refreshes>>
    /\ UNCHANGED <<ledgerVars, throttleVars, engineVars, monitorVars>>

\* time passes between the steps of the callers
LogTick ==
    /\ \E d \in Ticks : clock + d <= MaxLogClock /\ clock' = clock + d
    /\ UNCHANGED <<last_price_refresh, tpc, tnow, starts>>
    /\ UNCHANGED <<ledgerVars, engineVars, restVars>>

HistoryNext ==
    \/ LogTick
    \/ \E self \in Callers :
          \/ AcceptTrade(self)
          \/ \E why \in Rejections : RejectTrade(self, why)
          \/ RefreshLogs(self)
          \/ PerfRead(self)
          \/ PerfDecide(self)
          \/ PerfOpen(self)
          \/ PerfDump(self)
          \/ TradeRead(self)
          \/ TradeOpen(self)
          \/ TradeDump(self)

\* the histories the callers find: none, or lists one short of their limits
HistoryInit ==
    /\ file = [st |-> InitialState, plen |-> DocLen(InitialState),
               len |-> DocLen(InitialState)]
    /\ CallersIdle
    /\ ThrottleInit
    /\ EngineIdle
    /\ MonitorIdle
    /\ LoggersIdle
    /\ \/ tfile = NoFile /\ pfile = NoFile
       \/ /\ tfile = FileOf(OldTrades(TRADE_KEEP - 1))
          /\ pfile = FileOf(OldSamples(PERFORMANCE_KEEP - 1))

HistorySpec == HistoryInit /\ [][HistoryNext]_vars

\* ------------------------------------- the ledger, one call after another
\* the symbols of the books, the quantity of a trade and how many calls
BookSymbols == {"AAPL", "NVDA"}
BookQty == 10
MaxCalls == 3

\* what a call leaves of the callers' state alone
seqVars == <<lock, pc, phase, outcome, loaded, snapAgent, result, serial,
             tradesOnly, snapHist, changed>>

\* place_order(symbol, BookQty, side, source=source) from its lookup of the
\* price to its return, with no other caller at work
TradeCall(symbol, side, source, price) ==
    /\ started < MaxCalls
    /\ started' = started + 1
    /\ op' = [op EXCEPT ![1] = [NoOp EXCEPT !.kind = "trade",
                                            !.symbol = symbol,
                                            !.qty = BookQty, !.side = side,
                                            !.source = source,
                                            !.price = price]]
    /\ file' = Stored(SimTradeBody(file.st, symbol, BookQty, side, source,
                                   0, 0, price).state)
    /\ UNCHANGED <<seqVars, otherVars>>

\* _refresh_sim_prices from line 368 to the end of its with-block, with no
\* other caller at work; hq and aq are what the lookups of the two walks
\* return, 0 for a lookup that raises or gives no price
RefreshCall(hq, aq) ==
    /\ started < MaxCalls
    /\ started' = started + 1
    /\ op' = [op EXCEPT ![1] = [NoOp EXCEPT !.kind = "refresh",
                                            !.hq = hq, !.aq = aq]]
    /\ file' = Stored(RefreshBody(file.st, hq, aq).state)
    /\ UNCHANGED <<seqVars, otherVars>>

SeqNext ==
    \/ \E symbol \in BookSymbols, side \in Sides, source \in Sources,
          price \in Prices : TradeCall(symbol, side, source, price)
    \/ \E hq \in [BookSymbols -> Prices \cup {0}],
          aq \in [BookSymbols -> Prices \cup {0}] : RefreshCall(hq, aq)

\* the calls start on a ledger whose agent book has been allocated
SeqSpec == EngineInit /\ [][SeqNext]_vars

\* ------------------------------------- the engine under a breached stop-loss
\* the price the ticker stays at, under the stop-loss of the agent's buy
WatchPrice == 48
WatchStop == 50

\* the ledger once the agent book, allocated 2500, has bought BookQty of the
\* ticker at 100 with stop-loss WatchStop and risk score 5
HeldState ==
    SimTradeBody(SetAllocationBody(InitialState, 2500).state, Ticker, BookQty,
                 "buy", "agent", WatchStop, 5, 100).state

WatchInit ==
    /\ file = Stored(HeldState)
    /\ CallersIdle
    /\ ThrottleInit
    /\ EngineIdle
    /\ MonitorIdle
    /\ HistoryIdle

\* agent_brain.py lines 149-155 and 36-39: the next pass of the while loop
\* calls run_once for the ticker under the configuration it has reloaded,
\* and the market data hold the price; the cycles are followed for as long
\* as the agent book holds the ticker
WatchCycle(enabled) ==
    /\ epc = "idle"
    /\ Ticker \in DOMAIN file.st.agent.positions
    /\ submitted' = <<>>
    /\ seen' = NoSeen
    /\ order' = NoOrder
    /\ called' = {}
    /\ cyc' = [NoCycle EXCEPT !.price = WatchPrice, !.enabled = enabled]
    /\ epc' = "analyze"
    /\ UNCHANGED cycles
    /\ UNCHANGED <<ledgerVars, throttleVars, restVars>>

\* the steps of the engine: the read of the ledger returns, and the panic
\* sell's place_order returns and finds the price.  The position is held with
\* a stored stop-loss over the price, so that every cycle reaches line 73 with
\* the test true and ends at line 77
WatchEngine ==
    \/ \E enabled \in BOOLEAN : WatchCycle(enabled)
    \/ Analyze
    \/ StopLossRead(FALSE)
    \/ PanicPlace(FALSE, cyc.price)

\* the engine, and manual trades of the ticker through POST /trade
WatchNext ==
    \/ WatchEngine
    \/ \E side \in Sides : TradeCall(Ticker, side, "manual", WatchPrice)

\* the engine keeps cycling (lines 149-165: a pass, a sleep, the next pass);
\* nothing is assumed of the manual trades
WatchSpec == WatchInit /\ [][WatchNext]_vars /\ WF_vars(WatchEngine)

\* ------------------------------------------------------------------ claims
\* a caller is between flock(LOCK_EX) and flock(LOCK_UN)
InCS(c) == pc[c] \in {"load", "dump", "truncate", "unlock"}

Quiescent == \A c \in Callers : pc[c] = "idle"

\* C1: at most one caller at a time is inside the critical section between
\* loading the persisted state and writing it back, and that caller is the
\* holder of the lock.
MutualExclusion ==
    /\ \A a, b \in Callers : (a # b) => ~(InCS(a) /\ InCS(b))
    /\ \A a \in Callers : InCS(a) => lock = a

\* one caller is about to write back while another is blocked in flock
MutualExclusionWitness ==
    \E a, b \in Callers : a # b /\ pc[a] = "dump" /\ pc[b] = "lock"

\* C2: when concurrent executeTrade calls have all returned, the persisted
\* state is the one obtained by applying the calls one at a time in the order
\* in which they took the lock.
SerialOrder ==
    (tradesOnly /\ Quiescent) => (Readable(file) /\ file.st = serial)

\* the steps of a caller that read or write the file
FileAccessPcs == {"ensure", "ensure_open", "ensure_dump", "load", "dump", "truncate"}

Steps(c) == pc'[c] # pc[c] \/ phase'[c] # phase[c]

\* C3: every step of a Ledger code path that reads or writes the persisted
\* record, the existence/migration check included, is taken by the holder of
\* the ledger lock.
LockedAccess ==
    [][\A c \in Callers : (pc[c] \in FileAccessPcs /\ Steps(c)) => lock = c]_vars

\* the house-book fields of a ledger record
HouseOf(state) ==
    [full |-> state.full, cash |-> state.cash, equity |-> state.equity,
     buying_power |-> state.buying_power, positions |-> state.positions]

\* C4: the house fields and the agent book returned by get_account_info both
\* belong to one ledger state that was persisted between the call's reads.
SnapshotConsistent ==
    \A c \in Callers :
        (pc[c] = "idle" /\ op[c].kind = "snapshot" /\ result[c].status = "success")
        => \E s \in snapHist[c] :
              /\ HouseOf(s) = HouseOf(result[c].house)
              /\ s.agent = result[c].agent

\* an executeTrade call of c has returned a rejection
ReturnedRejected(c) ==
    pc[c] = "idle" /\ op[c].kind = "trade" /\ result[c].status = "rejected"

\* C5: an executeTrade call that is rejected (no price, agent funds, house
\* funds, shares) has not altered the persisted house book and agent book by
\* any of its own steps.
RejectionKeepsBooks ==
    \A c \in Callers : ReturnedRejected(c) => ~changed[c]

\* the cash of both books of a ledger record is not negative
CashOk(state) == state.agent.cash >= 0 /\ (state.full => state.cash >= 0)

\* C6: from the initial state and with allocations >= 0, whatever trades,
\* allocations and refreshes have run, the persisted house cash and agent cash
\* are >= 0, and so is the cash of every state an accepted operation is about
\* to persist.
CashNonNegative ==
    /\ Readable(file) => CashOk(file.st)
    /\ \A c \in Callers : outcome[c].kind = "success" => CashOk(outcome[c].state)

\* a buy was refused for house funds after an accepted buy had drawn the cash
CashNonNegativeWitness ==
    /\ Readable(file) /\ file.st.full /\ file.st.cash < StartCash
    /\ \E c \in Callers : pc[c] = "idle" /\ result[c].error = "funds"

\* equity = cash + sum of qty * current_price, for the books a record holds
EquityOk(state) ==
    /\ state.agent.equity = state.agent.cash + PosValue(state.agent.positions)
    /\ state.full => state.equity = state.cash + PosValue(state.positions)

\* C7: after every Ledger operation (trade accepted or rejected, allocation,
\* refresh) the persisted equity of the house book and of the agent book is
\* that book's cash plus the sum of quantity x current price of its positions.
EquityIdentity == Readable(file) => EquityOk(file.st)

\* both books hold a position, an allocation is set, and a refresh has moved
\* the price of one book's position away from the other's
EquityIdentityWitness ==
    /\ Quiescent /\ Readable(file) /\ file.st.agent.cash > 0
    /\ \E s \in DOMAIN file.st.agent.positions :
          /\ s \in DOMAIN file.st.positions
          /\ file.st.agent.positions[s].current_price
               # file.st.positions[s].current_price

\* C8: the lock is released on every exit path of a Ledger operation (success,
\* rejection returned from inside the critical section, exception): a caller
\* outside the critical section never holds it, and a caller waiting for the
\* lock eventually acquires it.
LockReleased ==
    /\ [](\A c \in Callers : ~InCS(c) => lock # c)
    /\ [][\A c \in Callers : (pc[c] = "lock" /\ pc'[c] # "lock") => lock' = c]_vars
    /\ \A c \in Callers : []<>(pc[c] # "lock")

\* one caller's operation has ended in a rejection from inside the critical
\* section or in an exception, and the other caller holds the lock after it
LockReleasedWitness ==
    \E a, b \in Callers :
        /\ a # b /\ lock = b /\ pc[a] = "idle"
        /\ result[a].status \in {"rejected", "exception"}
        /\ result[a].error # "price"

\* the step with which caller c leaves a read-write transaction
Ends(c) == pc[c] = "unlock" /\ pc'[c] = "idle" /\ WritesBack(op[c])

\* C9: a transaction is all-or-nothing for the persisted state: when it ends
\* in success the persisted record is the whole state it computed (both books
\* and both equities together), and when it fails it has not altered the
\* persisted record.
AllOrNothing ==
    [][\A c \in Callers :
          Ends(c) =>
             IF outcome[c].kind = "success"
             THEN Readable(file) /\ file.st = outcome[c].state
             ELSE ~changed[c]]_vars

\* the json.dump step of an accepted trade of caller c
WritesTrade(c) ==
    /\ pc[c] = "dump" /\ pc'[c] = "truncate"
    /\ op[c].kind = "trade" /\ outcome[c].kind = "success"

\* C10: an accepted buy of q units at price p writes back house cash p*q below
\* the cash it loaded and an accepted sell p*q above; from cash 100000 a buy
\* of 10 at 150 gives 98500 and a position of 10 at average 150, and a sell of
\* those 10 at 160 then gives 100100 and no position.
CashAccounting ==
    [][\A c \in Callers :
          LET o == op[c]
              before == loaded[c]
              after == file'.st
          IN  WritesTrade(c) =>
                /\ o.side = "buy" => after.cash = before.cash - o.price * o.qty
                /\ o.side = "sell" => after.cash = before.cash + o.price * o.qty
                /\ (before = InitialState /\ o.side = "buy" /\ o.qty = 10
                      /\ o.price = 150)
                      => /\ after.cash = 98500
                         /\ after.positions[o.symbol].qty = 10
                         /\ after.positions[o.symbol].avg_entry_price = <<150, 1>>
                /\ (before.cash = 98500 /\ o.side = "sell" /\ o.qty = 10
                      /\ o.price = 160 /\ before.positions[o.symbol].qty = 10)
                      => /\ after.cash = 100100
                         /\ o.symbol \notin DOMAIN after.positions]_vars

\* the scenario has run: bought 10 at 150, sold 10 at 160
CashAccountingWitness ==
    /\ Quiescent /\ Readable(file)
    /\ file.st.cash = 100100 /\ file.st.positions = NoPositions
    /\ \E c \in Callers :
          /\ result[c].status = "success" /\ op[c].kind = "trade"
          /\ op[c].side = "sell" /\ op[c].qty = 10 /\ op[c].price = 160

\* quantity and average entry price held of a symbol, 0 and 0 when absent
\* positions after is positions before with q units bought at price p added
\* at the cost-weighted average (Q*A + p*q)/(Q+q), as a fraction in lowest terms
BoughtAtAverage(before, after, symbol, q, p) ==
    LET Q == HeldQty(before, symbol)
        A == HeldAvg(before, symbol)
        avg == HeldAvg(after, symbol)
    IN  /\ HeldQty(after, symbol) = Q + q
        /\ avg[2] > 0 /\ Gcd(avg[1], avg[2]) = 1
        /\ avg[1] * A[2] * (Q + q) = avg[2] * (Q * A[1] + p * q * A[2])

\* what is left of a position after a sell has the average it had
AverageKept(before, after, symbol) ==
    symbol \in DOMAIN after => HeldAvg(after, symbol) = HeldAvg(before, symbol)

\* C11: an accepted buy of q units at price p on a position of quantity Q and
\* average entry price A (0 and 0 when absent) writes back quantity Q+q and
\* average (Q*A + p*q)/(Q+q), in the house book and, for an agent buy, in the
\* agent book; a sell leaves the average of the remaining quantity unchanged.
AverageCost ==
    [][\A c \in Callers :
          LET o == op[c]
              before == loaded[c]
              after == file'.st
          IN  WritesTrade(c) =>
                /\ o.side = "buy" =>
                      /\ BoughtAtAverage(before.positions, after.positions,
                                         o.symbol, o.qty, o.price)
                      /\ o.source = "agent" =>
                            BoughtAtAverage(before.agent.positions,
                                            after.agent.positions,
                                            o.symbol, o.qty, o.price)
                /\ o.side = "sell" =>
                      /\ AverageKept(before.positions, after.positions, o.symbol)
                      /\ AverageKept(before.agent.positions,
                                     after.agent.positions, o.symbol)]_vars

\* 10 units bought at one price and 400 at the other: the average is
\* (10*p1 + 400*p2)/410, not a whole number
AverageCostWitness ==
    /\ Quiescent /\ Readable(file)
    /\ \E s \in DOMAIN file.st.positions :
          /\ file.st.positions[s].qty = 410
          /\ file.st.positions[s].avg_entry_price \in {<<6550, 41>>, <<6150, 41>>}

\* every position of a book holds at least one unit
NoZeroRow(positions) == \A s \in DOMAIN positions : positions[s].qty >= 1

\* a sell of q units of a book that held at least q: the row is gone when q
\* was all of it, and holds the rest otherwise
SoldFrom(before, after, symbol, q) ==
    IF HeldQty(before, symbol) = q
    THEN symbol \notin DOMAIN after
    ELSE symbol \in DOMAIN after /\ after[symbol].qty = HeldQty(before, symbol) - q

\* C12: every position of every persisted house book and agent book has
\* quantity >= 1; an accepted sell of exactly the held quantity writes back a
\* book without the position, and a partial sell one with the reduced
\* quantity (in the agent book when the agent held at least the quantity sold).
NoZeroQuantityRows ==
    /\ [](Readable(file) =>
            NoZeroRow(file.st.positions) /\ NoZeroRow(file.st.agent.positions))
    /\ [][\A c \in Callers :
            LET o == op[c]
                before == loaded[c]
                after == file'.st
            IN  (WritesTrade(c) /\ o.side = "sell") =>
                   /\ SoldFrom(before.positions, after.positions, o.symbol, o.qty)
                   /\ (o.source = "agent"
                        /\ HeldQty(before.agent.positions, o.symbol) >= o.qty)
                      => SoldFrom(before.agent.positions, after.agent.positions,
                                  o.symbol, o.qty)]_vars

\* the agent has sold all it held of a symbol and its row is gone, while the
\* house, which held more, keeps a row with the rest
NoZeroQuantityRowsWitness ==
    /\ Quiescent /\ Readable(file)
    /\ \E c \in Callers :
          /\ result[c].status = "success" /\ op[c].kind = "trade"
          /\ op[c].side = "sell" /\ op[c].source = "agent"
          /\ op[c].symbol \notin DOMAIN file.st.agent.positions
          /\ file.st.agent.cash > 0

\* the operation of c is a buy for the agent
AgentBuyOp(c) ==
    op[c].kind = "trade" /\ op[c].source = "agent" /\ op[c].side = "buy"

\* C13: a buy with source = agent that finds agent cash < price * quantity in
\* the state it loads is rejected for agent funds, whatever the house cash;
\* and a call returned with that rejection has altered neither persisted book.
AgentFundsRejection ==
    /\ [][\A c \in Callers :
            (/\ pc[c] = "load" /\ pc'[c] # "load" /\ Readable(file)
             /\ AgentBuyOp(c)
             /\ file.st.agent.cash < op[c].price * op[c].qty)
            => outcome'[c] = Rejected(file.st, "agent_funds")]_vars
    /\ [](\A c \in Callers :
            (ReturnedRejected(c) /\ result[c].error = "agent_funds")
            => ~changed[c])

\* the operation of c is a sell for the agent of more than the agent book of
\* st holds, but not more than its house book holds
AgentSellEdge(c, st) ==
    /\ op[c].kind = "trade" /\ op[c].source = "agent" /\ op[c].side = "sell"
    /\ st.full
    /\ HeldQty(st.positions, op[c].symbol) >= op[c].qty
    /\ HeldQty(st.agent.positions, op[c].symbol) < op[c].qty

\* C14: a sell with source = agent of a quantity the house book holds but the
\* agent book does not is accepted; its write-back credits price * quantity to
\* the house cash and takes the quantity off the house position, and leaves
\* the cash and the positions of the agent book as they were loaded.
AgentSellEdgeCase ==
    [][\A c \in Callers :
          /\ (pc[c] = "load" /\ pc'[c] # "load" /\ Readable(file)
              /\ AgentSellEdge(c, file.st))
             => outcome'[c].kind = "success"
          /\ (pc[c] = "dump" /\ pc'[c] = "truncate"
              /\ AgentSellEdge(c, loaded[c]))
             => LET before == loaded[c]
                    after == file'.st
                IN  /\ after.cash = before.cash + op[c].price * op[c].qty
                    /\ SoldFrom(before.positions, after.positions,
                                op[c].symbol, op[c].qty)
                    /\ after.agent.cash = before.agent.cash
                    /\ after.agent.positions = before.agent.positions]_vars

\* an accepted agent sell of units only the house held has returned
AgentSellEdgeCaseWitness ==
    \E c \in Callers :
        /\ pc[c] = "idle" /\ result[c].status = "success"
        /\ AgentSellEdge(c, loaded[c])
        /\ Readable(file) /\ file.st = outcome[c].state

\* the agent book of st is one freshly allocated amount
AllocatedTo(st, amount) ==
    /\ st.agent.allocated = amount
    /\ st.agent.cash = amount
    /\ st.agent.equity = amount + PosValue(st.agent.positions)

\* C15: whatever agent book a set_agent_allocation(amount) loads, the state it
\* computes and writes back has agent.allocated = agent.cash = amount and
\* agent.equity = amount + value of the agent positions; applying the same
\* allocation to that state again changes nothing, and applying another amount
\* to it gives what that amount alone gives on the loaded state.
AllocationIsReset ==
    [][\A c \in Callers :
          /\ (pc[c] = "load" /\ pc'[c] # "load" /\ Readable(file)
              /\ op[c].kind = "alloc")
             => LET once == outcome'[c].state
                IN  /\ outcome'[c].kind = "success"
                    /\ AllocatedTo(once, op[c].amount)
                    /\ SetAllocationBody(once, op[c].amount).state = once
                    /\ \A other \in Amounts :
                          SetAllocationBody(once, other).state =
                             SetAllocationBody(file.st, other).state
          /\ (pc[c] = "dump" /\ pc'[c] = "truncate" /\ op[c].kind = "alloc")
             => AllocatedTo(file'.st, op[c].amount)]_vars

\* an allocation has been written over an agent book whose cash was neither
\* its allocation nor the new amount, and which holds a position
AllocationIsResetWitness ==
    \E c \in Callers :
        /\ pc[c] = "idle" /\ op[c].kind = "alloc"
        /\ result[c].status = "success"
        /\ loaded[c].agent.cash # loaded[c].agent.allocated
        /\ loaded[c].agent.cash # op[c].amount
        /\ op[c].amount > 0
        /\ loaded[c].agent.positions # NoPositions
        /\ Readable(file) /\ AllocatedTo(file.st, op[c].amount)

\* C16: any two starts of _refresh_sim_prices on the one TradingService are at
\* least PRICE_REFRESH_INTERVAL seconds apart, whether started through the gate
\* of _maybe_refresh_prices or by get_positions.
RefreshThrottle ==
    \A i, j \in DOMAIN starts :
        i < j => Abs(starts[j] - starts[i]) >= PRICE_REFRESH_INTERVAL

\* the stop-loss check of the cycle has read a position of the ticker whose
\* active stop-loss the current price has reached
PanicDue ==
    /\ seen.stop = "ok" /\ seen.pos_qty > 0
    /\ ActiveSl(cyc.stop_loss, seen.stored_sl) > 0
    /\ cyc.price <= ActiveSl(cyc.stop_loss, seen.stored_sl)

\* the one order of a panic sell of n units
PanicOrder(n) ==
    [kind |-> "panic", side |-> "sell", qty |-> n, source |-> "agent",
     stop_loss |-> 0, risk_score |-> 0]

\* C17: in a cycle whose stop-loss check found n > 0 units held, an active
\* stop-loss > 0 and the price at or below it, the orders submitted are, once
\* the panic sell is placed and until the cycle ends, exactly one sell of the
\* n units with source = agent, whatever the signal; no other order follows.
PanicSellOnly ==
    PanicDue => \/ epc = "panic" /\ submitted = <<>>
                \/ submitted = <<PanicOrder(seen.pos_qty)>>

\* the active stop-loss for a stored stop-loss s and a fresh suggestion f
TighterFloor(s, f) ==
    IF s > 0 /\ f > 0 THEN (IF s >= f THEN s ELSE f)
    ELSE IF s > 0 THEN s
    ELSE IF f > 0 THEN f
    ELSE 0

\* C18: the active stop-loss of line 71 is, for stored s and fresh f (both
\* >= 0), max(s, f) when both are positive, the positive one when one is, and
\* 0 when neither is (stored 50, fresh 45: 50; stored 0, fresh 45: 45); and a
\* stop-loss check that has read the agent book goes to the panic sell exactly
\* when a position is held, that value is > 0 and the price is at or below it.
ActiveStopLoss ==
    /\ \A s \in EngineStops, f \in EngineStops :
          ActiveSl(f, s) = TighterFloor(s, f)
    /\ ActiveSl(45, 50) = 50 /\ ActiveSl(45, 0) = 45
    /\ [][(epc = "stop_check" /\ seen'.stop = "ok")
          => LET active == TighterFloor(seen'.stored_sl, cyc.stop_loss)
             IN  (epc' = "panic") <=>
                    (seen'.pos_qty > 0 /\ active > 0 /\ cyc.price <= active)
         ]_vars

\* the panic sell is due on the stored stop-loss 50 although the price 48 is
\* above the fresh suggestion 45
ActiveStopLossWitness ==
    /\ epc = "panic"
    /\ seen.stored_sl = 50 /\ cyc.stop_loss = 45 /\ cyc.price = 48

\* floor(c * 0.20 * max(0.1, (11 - rs)/10) / p) in exact arithmetic, for rs in
\* 1..10 (where the maximum is (11 - rs)/10), raised to 1 when it is below 1
\* and the cash c covers the price p
ExactQty(c, rs, p) ==
    LET q == (c * (11 - rs)) \div (50 * p)
    IN  IF q < 1 /\ c >= p THEN 1 ELSE q

\* C19: a BUY sized from a read agent cash c, a risk score in 1..10 and a
\* price > 0 gets the quantity floor(c * 0.20 * (11 - riskScore)/10 / price),
\* or 1 when that is below 1 and c >= price, and is dropped when the quantity
\* is still below 1; c = 20000, riskScore 10, price 100 gives 4.
BuySizing ==
    /\ ExactQty(20000, 10, 100) = 4 /\ BuyQty(20000, 10, 100) = 4
    /\ [][(/\ epc = "size" /\ cyc.signal = "BUY" /\ seen'.size = "ok"
           /\ cyc.price > 0 /\ cyc.risk_score \in 1..10)
          => LET q == ExactQty(seen'.agent_cash, cyc.risk_score, cyc.price)
             IN  IF q >= 1
                 THEN epc' = "submit" /\ order' = [side |-> "buy", qty |-> q]
                 ELSE epc' = "idle" /\ order' = NoOrder
         ]_vars

\* the signal trade of the cycle is a SELL sized from a read agent book
SellSized == cyc.signal = "SELL" /\ seen.size = "ok" /\ cyc.price > 0

NoPanicFired == \A i \in DOMAIN submitted : submitted[i].kind # "panic"

\* the cycle's signal is HOLD or its configuration disables autonomous trading
NoActionDue == cyc.signal = "HOLD" \/ ~cyc.enabled

\* C21: in a cycle in which no panic sell was fired and whose signal is HOLD
\* or whose configuration disables autonomous trading, the engine submits no
\* trade to the ledger: the gate ends the cycle, and nothing is submitted in
\* any state of it.
NoActionTerminal ==
    /\ [][(epc = "signal" /\ NoActionDue)
          => epc' = "idle" /\ submitted' = submitted /\ file' = file]_vars
    /\ []((NoPanicFired /\ NoActionDue) => submitted = <<>>)

\* a cycle with a BUY signal under a configuration that disables autonomous
\* trading went through the stop-loss check without a panic sell and ended
\* with nothing submitted
NoActionTerminalWitness ==
    /\ epc = "idle" /\ seen.stop = "ok"
    /\ cyc.signal = "BUY" /\ ~cyc.enabled
    /\ submitted = <<>>

\* C22: while the configuration has autonomous trading disabled, the engine
\* submits no trade to the ledger, of any side and through any branch of the
\* cycle.
DisabledSubmitsNothing == ~cyc.enabled => submitted = <<>>

\* C23: the watchlist loop survives the failure of a ticker: after an
\* exception of ticker i the loop goes on with the next ticker, so that every
\* ticker of the watchlist has been processed when the cycle is over; the
\* loop is never left because of an exception, and again and again it sleeps
\* and starts another cycle.
WatchlistLoopSurvives ==
    /\ [][mpc = "except"
          => /\ mpc' = IF midx < Len(Watchlist) THEN "config" ELSE "sleep"
             /\ midx' = IF midx < Len(Watchlist) THEN midx + 1 ELSE midx]_vars
    /\ [](mpc = "sleep" => mtried = DOMAIN Watchlist)
    /\ [](mpc # "stopped")
    /\ []<>(mpc = "sleep")
    /\ []<>(mpc = "config" /\ midx = 1)

\* a cycle is over in which the first and the third ticker raised and all
\* four tickers were processed
WatchlistLoopSurvivesWitness ==
    /\ mpc = "sleep"
    /\ mfailed = {1, 3}
    /\ mtried = DOMAIN Watchlist

\* C24: when the provider fails during the analysis, the signal of the rest
\* of the cycle is HOLD; the cycle goes on to the stop-loss check, and no
\* signal-driven trade is submitted in it.
ProviderFailureHolds ==
    /\ [][(epc = "analyze" /\ cyc'.error)
          => cyc'.signal = "HOLD" /\ epc' = "stop_check"]_vars
    /\ [](cyc.error => cyc.signal = "HOLD")
    /\ [](cyc.error
            => \A i \in DOMAIN submitted : submitted[i].kind # "signal")

\* a cycle whose analysis failed went through the stop-loss check, which
\* fired the panic sell of the position, and ended
ProviderFailureHoldsWitness ==
    /\ cyc.error /\ epc = "idle" /\ seen.stop = "ok"
    /\ Len(submitted) = 1 /\ submitted[1].kind = "panic"

\* C25: a cycle whose fetch yields no price data ends at once and without
\* side effects: no news, analysis or notification is requested, no ledger
\* operation is called, nothing is submitted and the ledger file and the
\* callers' state are unchanged; run_once has returned, so the engine goes on
\* with the next ticker.
NoDataNoEffect ==
    /\ [][(cycles' # cycles /\ cyc'.price = NoPriceData)
          => /\ epc' = "idle"
             /\ called' = {} /\ submitted' = <<>>
             /\ UNCHANGED ledgerVars]_vars
    /\ [](cyc.price = NoPriceData
            => epc = "idle" /\ called = {} /\ submitted = <<>>)

\* the second cycle found no price data, on a ledger in which the first had
\* bought the ticker, and is over
NoDataNoEffectWitness ==
    /\ cyc.price = NoPriceData /\ cycles = 2 /\ epc = "idle"
    /\ HeldQty(file.st.agent.positions, Ticker) > 0

\* C27: when a call finds the persisted record unreadable, the record is
\* reinitialized to the default state (house cash, equity and buying power
\* StartCash, both books empty), and the call, when no other caller is at
\* work, goes on with that default state.
UnreadableReinitialized ==
    /\ [][\A c \in Callers :
            (pc[c] = "ensure_dump" /\ pc'[c] # "ensure_dump")
            => Readable(file') /\ file'.st = InitialState]_vars
    /\ [][\A c \in Callers :
            (/\ pc[c] = "load" /\ pc'[c] # "load" /\ changed[c]
             /\ \A d \in Callers \ {c} : pc[d] = "idle")
            => /\ loaded'[c] = InitialState
               /\ outcome'[c] = Body(op[c], InitialState)]_vars

\* the trade of c, by the state st it loads: what it costs, and whether the
\* house book of st holds fewer units of its symbol than it sells
CostOf(c) == op[c].price * op[c].qty
HoldsLess(c, st) ==
    \/ op[c].symbol \notin DOMAIN st.positions
    \/ st.positions[op[c].symbol].qty < op[c].qty

\* C26: the business-rule rejections of a trade are returned, never raised.
\* A trade without a price is returned as rejected for the price; a trade that
\* finds, in the record it loads, agent cash below the cost of an agent buy,
\* else house cash below the cost of a buy, else fewer units held than it
\* sells, leaves the block with that rejection and not with an exception;
\* what the call returns is then the error reason and nothing of a success,
\* and an accepted trade returns success naming mode, symbol, side, quantity,
\* price and source of the call.
RejectionsReturned ==
    /\ [](\A c \in Callers :
            (pc[c] = "idle" /\ op[c].kind = "trade" /\ op[c].price = 0)
            => result[c].status = "rejected" /\ result[c].error = "price")
    /\ [][\A c \in Callers :
            (/\ pc[c] = "load" /\ pc'[c] # "load" /\ Readable(file)
             /\ op[c].kind = "trade")
            => LET st == file.st
                   buy == op[c].side = "buy"
               IN  IF /\ op[c].source = "agent" /\ buy
                      /\ st.agent.cash < CostOf(c)
                   THEN /\ outcome'[c].kind = "rejected"
                        /\ outcome'[c].error = "agent_funds"
                   ELSE IF st.full /\ buy /\ st.cash < CostOf(c)
                   THEN /\ outcome'[c].kind = "rejected"
                        /\ outcome'[c].error = "funds"
                   ELSE IF st.full /\ ~buy /\ HoldsLess(c, st)
                   THEN /\ outcome'[c].kind = "rejected"
                        /\ outcome'[c].error = "shares"
                   ELSE outcome'[c].kind # "rejected"]_vars
    /\ [][\A c \in Callers :
            (pc[c] = "unlock" /\ pc'[c] = "idle" /\ op[c].kind = "trade")
            => /\ result'[c].status = outcome[c].kind
               /\ result'[c].error = outcome[c].error]_vars
    /\ [](\A c \in Callers :
            (pc[c] = "idle" /\ op[c].kind = "trade")
            => CASE result[c].status = "rejected" ->
                      /\ result[c].error
                            \in {"price", "agent_funds", "funds", "shares"}
                      /\ result[c].trade = NoTrade
                 [] result[c].status = "success" ->
                      /\ result[c].error = ""
                      /\ result[c].trade =
                            [mode |-> "simulation", symbol |-> op[c].symbol,
                             side |-> op[c].side, qty |-> op[c].qty,
                             price |-> op[c].price, source |-> op[c].source]
                 [] OTHER -> result[c].status = "exception")

\* one caller's buy was returned as rejected for house funds and the
\* other's trade as a success
RejectionsReturnedWitness ==
    \E c, d \in Callers :
        /\ pc[c] = "idle" /\ pc[d] = "idle"
        /\ op[c].kind = "trade" /\ op[d].kind = "trade"
        /\ result[c].status = "rejected" /\ result[c].error = "funds"
        /\ result[d].status = "success"

\* C28: the trade history is append-only and bounded: what a caller is about
\* to write over the persisted history is that history with the entry of its
\* accepted trade added at the end (no entry changed, dropped from the middle
\* or reordered), cut to its last TRADE_KEEP entries, the oldest being the
\* ones dropped; and the persisted history never holds more than TRADE_KEEP.
TradeHistoryAppendOnly ==
    /\ [][\A c \in Callers :
            (hpc[c] = "trade_open" /\ hpc'[c] = "trade_dump" /\ ~tfile.cut)
            => history[c] =
                 LET all == Append(tfile.list, hop[c].entry)
                 IN  IF Len(all) <= TRADE_KEEP THEN all
                     ELSE [i \in 1..TRADE_KEEP |->
                              all[i + Len(all) - TRADE_KEEP]]]_vars
    /\ [](~tfile.cut => Len(tfile.list) <= TRADE_KEEP)

\* the last sample of a list
LastSample(list) == list[Len(list)]

\* C29: a performance sample is added to the persisted history only when that
\* history is empty, or its last sample has another equity, or is at least 60
\* seconds old: what a caller is about to write over the persisted history is
\* either that history as it is, or that history with the new sample at the
\* end, under one of the three conditions, cut to its last PERFORMANCE_KEEP
\* samples; and the persisted history never holds more than PERFORMANCE_KEEP.
PerformanceDedup ==
    /\ [][\A c \in Callers :
            (hpc[c] = "perf_open" /\ hpc'[c] = "perf_dump" /\ ~pfile.cut)
            => \/ history[c] = pfile.list
               \/ LET new == LastSample(history[c])
                      all == Append(pfile.list, new)
                  IN  /\ new.equity = hop[c].equity
                      /\ history[c] =
                           IF Len(all) <= PERFORMANCE_KEEP THEN all
                           ELSE [i \in 1..PERFORMANCE_KEEP |->
                                    all[i + Len(all) - PERFORMANCE_KEEP]]
                      /\ \/ pfile.list = <<>>
                         \/ LastSample(pfile.list).equity # new.equity
                         \/ new.timestamp - LastSample(pfile.list).timestamp
                              >= 60]_vars
    /\ [](~pfile.cut => Len(pfile.list) <= PERFORMANCE_KEEP)

\* book is positions refreshed from positions before with the quotes quote:
\* the same symbols, quantities and average prices; the quoted price where
\* there is one, the price before where there is none
RefreshedFrom(book, before, quote) ==
    /\ DOMAIN book = DOMAIN before
    /\ \A s \in DOMAIN before :
          /\ book[s].qty = before[s].qty
          /\ book[s].avg_entry_price = before[s].avg_entry_price
          /\ book[s].current_price =
                IF quote[s] = 0 THEN before[s].current_price ELSE quote[s]

\* qty * current_price over the positions of a book
ValueOf(book) == SumValue(book, DOMAIN book)

\* C30: a refresh tolerates the failure of a lookup: a position whose lookup
\* fails or gives no price keeps the current price it had, every other
\* position of either book has the price its lookup gave, and the equity of
\* each book is its cash plus the value of its positions at the resulting
\* prices.
RefreshTolerant ==
    [][(started' # started /\ op'[1].kind = "refresh")
       => LET before == file.st
              after == file'.st
          IN  /\ RefreshedFrom(after.positions, before.positions, op'[1].hq)
              /\ RefreshedFrom(after.agent.positions, before.agent.positions,
                               op'[1].aq)
              /\ after.cash = before.cash
              /\ after.agent.cash = before.agent.cash
              /\ after.equity = after.cash + ValueOf(after.positions)
              /\ after.agent.equity
                   = after.agent.cash + ValueOf(after.agent.positions)]_vars

\* a refresh whose lookup of AAPL failed in both walks and whose lookup of
\* NVDA gave 160: both books hold both symbols, AAPL at the price it had and
\* NVDA at 160
RefreshTolerantWitness ==
    /\ op[1].kind = "refresh"
    /\ op[1].hq = [s \in BookSymbols |-> IF s = "AAPL" THEN 0 ELSE 160]
    /\ op[1].aq = op[1].hq
    /\ DOMAIN file.st.positions = BookSymbols
    /\ DOMAIN file.st.agent.positions = BookSymbols
    /\ file.st.positions["AAPL"].current_price = 150
    /\ file.st.agent.positions["AAPL"].current_price = 150
    /\ file.st.positions["NVDA"].current_price = 160
    /\ file.st.agent.positions["NVDA"].current_price = 160
    /\ file.st.positions["NVDA"].avg_entry_price = Rat(150, 1)

\* what a book holds apart from prices and the values derived from them
BookOf(ag) ==
    [cash |-> ag.cash,
     allocated |-> ag.allocated,
     positions |-> [s \in DOMAIN ag.positions |->
                      [qty |-> ag.positions[s].qty,
                       avg_entry_price |-> ag.positions[s].avg_entry_price,
                       stop_loss |-> ag.positions[s].stop_loss,
                       risk_score |-> ag.positions[s].risk_score]]]

\* C31: a trade with source = manual never changes the agent book: no step
\* of the call that writes the file changes the agent cash, the agent
\* allocation, or the quantity, average entry price, stored stop-loss or risk
\* score of an agent position, whether the trade is accepted or rejected.
ManualKeepsAgentBook ==
    [][\A c \in Callers :
          (/\ op[c].kind = "trade" /\ op[c].source = "manual"
           /\ pc'[c] # pc[c]
           /\ file' # file)
          => BookOf(file'.st.agent) = BookOf(file.st.agent)]_vars

\* C32: book containment: in every reachable state, for every symbol, the
\* quantity held in the agent book is at most the quantity held in the house
\* book.
BookContainment ==
    \A s \in BookSymbols :
        HeldQty(file.st.agent.positions, s) <= HeldQty(file.st.positions, s)

\* C33: stop-loss liveness: the agent book holds a position in the ticker and
\* in every cycle the price is at or under the active stop-loss; with prices
\* available and the engine cycling, the agent's position in the ticker is
\* eventually removed from the agent book, whatever manual trades were made.
StopLossLiveness == <>(Ticker \notin DOMAIN file.st.agent.positions)

\* C34: no trade record is lost under concurrency: once the executeTrade
\* calls that were accepted, concurrently or not, have all returned, the
\* persisted trade history holds one record for each of them.
NoLostTradeRecords ==
    (\A c \in Callers : hpc[c] = "idle")
    => \A i \in 1..Len(accepted) :
          Cardinality({k \in 1..Len(tfile.list) :
                          tfile.list[k] = accepted[i]}) = 1

\* C35: a rejected executeTrade appends nothing: the step in which a caller's
\* trade is rejected (no price, agent funds, house funds, shares) is the
\* return of its call, and it leaves the trade history and the performance
\* history as they were; no caller is inside _log_performance or _log_trade
\* for a rejected trade.
RejectionAppendsNothing ==
    /\ [][\A c \in Callers :
            (hop'[c].kind = "rejected" /\ hop'[c] # hop[c])
            => /\ tfile' = tfile
               /\ pfile' = pfile
               /\ hpc'[c] = "idle"]_vars
    /\ [](\A c \in Callers : hop[c].kind = "rejected" => hpc[c] = "idle")

\* a trade was rejected after an accepted one had filled the trade history
\* to TRADE_KEEP entries, the last of them the accepted trade's
RejectionAppendsNothingWitness ==
    /\ \E c \in Callers : hop[c].kind = "rejected"
    /\ Len(accepted) = 1
    /\ ~tfile.cut /\ Len(tfile.list) = TRADE_KEEP
    /\ tfile.list[TRADE_KEEP] = accepted[1]
    /\ \A c \in Callers : hpc[c] = "idle"

\* the call of caller c is an agent buy
IsAgentBuy(c) ==
    op[c].kind = "trade" /\ op[c].source = "agent" /\ op[c].side = "buy"

\* the call of caller c is one the stored stop-loss is to outlast: an agent
\* sell, a manual trade, set_agent_allocation or a refresh
KeepsStops(c) ==
    \/ op[c].kind \in {"alloc", "refresh"}
    \/ op[c].kind = "trade" /\ ~IsAgentBuy(c)

\* C36: stored stop-loss lifecycle: the write of an accepted agent buy leaves
\* the position of its symbol with the stop-loss and risk score passed with
\* the buy, whatever an earlier buy had stored; no step of an agent sell, a
\* manual trade, set_agent_allocation or a refresh that writes the file
\* changes the stored stop-loss or risk score of an agent position, and only
\* an agent sell of the symbol removes the position.
StopLossLifecycle ==
    [][\A c \in Callers :
          (pc'[c] # pc[c] /\ file' # file)
          => LET before == file.st.agent.positions
                 after == file'.st.agent.positions
             IN  /\ (IsAgentBuy(c) /\ pc[c] = "dump"
                        /\ outcome[c].kind = "success")
                    => /\ op[c].symbol \in DOMAIN after
                       /\ after[op[c].symbol].stop_loss = op[c].stop_loss
                       /\ after[op[c].symbol].risk_score = op[c].risk_score
                 /\ KeepsStops(c)
                    => \A s \in DOMAIN before :
                          IF s \in DOMAIN after
                          THEN /\ after[s].stop_loss = before[s].stop_loss
                               /\ after[s].risk_score = before[s].risk_score
                          ELSE /\ op[c].kind = "trade"
                               /\ op[c].source = "agent"
                               /\ op[c].symbol = s]_vars

\* the quantity and average entry price of every position of a book
Holdings(positions) ==
    [s \in DOMAIN positions |->
        [qty |-> positions[s].qty,
         avg_entry_price |-> positions[s].avg_entry_price]]

\* what a refresh is to leave alone in a ledger record
FrameOf(state) ==
    [full |-> state.full,
     cash |-> state.cash,
     buying_power |-> state.buying_power,
     positions |-> Holdings(state.positions),
     agent_cash |-> state.agent.cash,
     agent_allocated |-> state.agent.allocated,
     agent_positions |-> Holdings(state.agent.positions)]

\* C37: refreshPrices changes only prices and the values derived from them:
\* no step of a refresh that writes the file changes the cash of either book,
\* the agent allocation, the house buying power, the set of held symbols, or
\* the quantity or average entry price of a position.
RefreshChangesPricesOnly ==
    [][\A c \in Callers :
          (op[c].kind = "refresh" /\ pc'[c] # pc[c] /\ file' # file)
          => FrameOf(file'.st) = FrameOf(file.st)]_vars

\* C38: the engine submits a signal-driven trade only with a quantity computed
\* from an agent book it has read: every signal order of a cycle follows a
\* read of the ledger that returned, and its quantity is what lines 100-122
\* compute from that read (BUY: the sizing of the agent cash; SELL: the held
\* quantity); a cycle whose read or computation raised submits no signal
\* order.
SizedFromSnapshot ==
    \A i \in 1..Len(submitted) :
        submitted[i].kind = "signal"
        => /\ seen.size = "ok"
           /\ submitted[i].qty =
                IF submitted[i].side = "sell" THEN seen.held
                ELSE BuyQty(seen.agent_cash, cyc.risk_score, cyc.price)

====
